---- MODULE Spec2Model ----
(***************************************************************************)
(* A model of the image-link engine of pixel-perfect-image:                *)
(*   - the size-token grammar and the parameter transforms                 *)
(*     (src/src/utils/utils.ts, src/src/core/ImageService.ts),             *)
(*   - the link parser, the document scanners and the rewriter             *)
(*     (src/src/core/LinkService.ts).                                      *)
(* Text is a sequence of one-character strings; offsets are 0-based as in  *)
(* the source, and Substring/CharAt convert to TLA+'s 1-based sequences.   *)
(***************************************************************************)
EXTENDS Integers, Sequences, FiniteSets, TLC

VARIABLES
    token,      \* the string handed to parseObsidianImageSizeParam
    parsed,     \* what parseObsidianImageSizeParam returned for it
    params,     \* a link's parameter list (string[])
    oldParams,  \* the parameter list before the last transform
    foundParam, \* what findLastObsidianImageSizeParam returned for params
    data,       \* the text of the active document in the vault
    prevData,   \* the document text before the last operation
    imageFile,  \* the TFile of the target image
    imageUrl,   \* the URL of the target external image
    lastOp,     \* the last operation applied: [name, width]
    steps,      \* number of operations applied so far
    scanState,  \* the markdown-style scanner: "idle", "scanning" or "done"
    scanIndex,  \* its index variable between iterations of the outer loop
    scanMatches, \* the matches it has reported to onMatch so far
    callResult, \* how the last call of a LinkService operation settled
    processCalls, \* number of calls of vault.process it made
    returned,   \* the text its process callback returned
    vaultFault, \* the error vault.process rejected with in it, or "none"
    isModifierKeyHeld,   \* EventService.isModifierKeyHeld
    listening,           \* EventService.wheelEventCleanup is not null
    unloaded,            \* the plugin's onunload has run
    wheelWidthCache,     \* EventService.wheelWidthCache
    wheelPendingWidth,   \* EventService.wheelPendingWidth
    wheelDebounceTimers, \* EventService.wheelDebounceTimers: key -> timer handle
    wheelMaxWaitTimers,  \* EventService.wheelMaxWaitTimers: key -> timer handle
    wheelTargets,        \* EventService.wheelTargets
    wheelWriteQueue,     \* EventService.wheelWriteQueue: key -> writeTask
    wheelComputes,       \* the compute promise chains of handleImageWheel, per key
    writeTasks,          \* the writeTask promises created so far
    timerSeq,            \* the last handle setTimeout returned
    wheelWrites,         \* the calls of update...ImageLinkWidth made by writeTasks
    atTeardown,          \* what cleanup() found: pending widths, unsettled writeTasks
    lastEvent,           \* the handler that ran last: [name, key]
    linkMain,   \* the mainPart handed to parseLinkComponents
    linkDest,   \* the linkPath handed to it, empty when there is none
    linkParts   \* the ImageLink it returned

vars == <<token, parsed, params, oldParams, foundParam, data, prevData,
          imageFile, imageUrl, lastOp, steps, scanState, scanIndex, scanMatches,
          callResult, processCalls, returned, vaultFault,
          isModifierKeyHeld, listening, unloaded, wheelWidthCache,
          wheelPendingWidth, wheelDebounceTimers, wheelMaxWaitTimers,
          wheelTargets, wheelWriteQueue, wheelComputes, writeTasks, timerSeq,
          wheelWrites, atTeardown, lastEvent, linkMain, linkDest, linkParts>>

(***************************************************************************)
(* Bounds of the model.                                                    *)
(***************************************************************************)
MaxTokenLen == 4
MaxParams == 3
MaxPieces == 2
MaxSteps == 2

(***************************************************************************)
(* JavaScript string primitives.                                           *)
(***************************************************************************)
\* const v = ...: the value is computed once and named in the rest.
Bind(v, F(_)) == F(v)

Min(a, b) == IF a < b THEN a ELSE b
Max(a, b) == IF a > b THEN a ELSE b

\* String.prototype.substring(a, b): 0-based, end exclusive, clamped.
Substring(s, a, b) ==
    Bind(Min(Max(a, 0), Len(s)), LAMBDA lo :
    Bind(Min(Max(b, 0), Len(s)), LAMBDA hi :
        IF lo <= hi THEN SubSeq(s, lo + 1, hi) ELSE SubSeq(s, hi + 1, lo)))

\* s[i]: the character at 0-based index i, or undefined past the end.
Undefined == "undefined"
CharAt(s, i) == IF i >= 0 /\ i < Len(s) THEN s[i + 1] ELSE Undefined

\* The characters JavaScript's \s and trim() treat as white space.
WhiteSpace == {" ", "\n", "\r", "\t"}

\* The least element of a non-empty set of integers.
Least(S) == CHOOSE m \in S : \A n \in S : m <= n

\* The concatenation of list[a], ..., list[b].
RECURSIVE FlattenRange(_, _, _)
FlattenRange(list, a, b) ==
    IF a > b THEN <<>>
    ELSE IF a = b THEN list[a]
    ELSE FlattenRange(list, a, (a + b) \div 2) \o FlattenRange(list, (a + b) \div 2 + 1, b)

\* The concatenation of a list of strings.
Flatten(list) == FlattenRange(list, 1, Len(list))

\* String.prototype.trimStart() and trimEnd()
TrimStart(s) ==
    IF \A i \in 1..Len(s) : s[i] \in WhiteSpace THEN <<>>
    ELSE SubSeq(s, Least({i \in 1..Len(s) : s[i] \notin WhiteSpace}), Len(s))

TrimEnd(s) ==
    IF \A i \in 1..Len(s) : s[i] \in WhiteSpace THEN <<>>
    ELSE SubSeq(s, 1, Len(s) + 1 - Least({Len(s) + 1 - i : i \in {i \in 1..Len(s) : s[i] \notin WhiteSpace}}))

\* String.prototype.trim()
Trim(s) == TrimEnd(TrimStart(s))

\* s.startsWith(p) at 0-based offset i
StartsWithAt(s, p, i) ==
    /\ i >= 0
    /\ i + Len(p) <= Len(s)
    /\ SubSeq(s, i + 1, i + Len(p)) = p

\* String.prototype.indexOf(p, from): first 0-based offset >= from, or -1.
IndexOf(s, p, from) ==
    IF \E i \in from..(Len(s) - Len(p)) : StartsWithAt(s, p, i)
    THEN Least({i \in from..(Len(s) - Len(p)) : StartsWithAt(s, p, i)})
    ELSE -1

\* String.prototype.split(sep) for a one-character separator: always at
\* least one piece.
RECURSIVE Split(_, _)
Split(s, sep) ==
    Bind(IndexOf(s, <<sep>>, 0), LAMBDA i :
        IF i = -1 THEN <<s>>
        ELSE <<Substring(s, 0, i)>> \o Split(Substring(s, i + 1, Len(s)), sep))

\* String.prototype.split(sep, limit): the first `limit` pieces only, the
\* rest of the string is dropped.
SplitLimit(s, sep, limit) ==
    Bind(Split(s, sep), LAMBDA all :
        SubSeq(all, 1, Min(limit, Len(all))))

\* Array.prototype.join(sep)
RECURSIVE Join(_, _)
Join(list, sep) ==
    IF list = <<>> THEN <<>>
    ELSE IF Len(list) = 1 THEN list[1]
    ELSE list[1] \o <<sep>> \o Join(Tail(list), sep)

(***************************************************************************)
(* Numbers and their decimal strings.                                      *)
(***************************************************************************)
Digits == {"0", "1", "2", "3", "4", "5", "6", "7", "8", "9"}
NonZeroDigits == Digits \ {"0"}

DigitValue(c) ==
    CASE c = "0" -> 0 [] c = "1" -> 1 [] c = "2" -> 2 [] c = "3" -> 3
      [] c = "4" -> 4 [] c = "5" -> 5 [] c = "6" -> 6 [] c = "7" -> 7
      [] c = "8" -> 8 [] c = "9" -> 9

DigitChar(d) ==
    CASE d = 0 -> "0" [] d = 1 -> "1" [] d = 2 -> "2" [] d = 3 -> "3"
      [] d = 4 -> "4" [] d = 5 -> "5" [] d = 6 -> "6" [] d = 7 -> "7"
      [] d = 8 -> "8" [] d = 9 -> "9"

\* Number.parseInt(s, 10) of a string of decimal digits.
RECURSIVE ParseInt(_)
ParseInt(s) ==
    IF s = <<>> THEN 0
    ELSE 10 * ParseInt(SubSeq(s, 1, Len(s) - 1)) + DigitValue(s[Len(s)])

\* String(n) of a non-negative integer.
RECURSIVE NumberToString(_)
NumberToString(n) ==
    IF n < 10 THEN <<DigitChar(n)>>
    ELSE NumberToString(n \div 10) \o <<DigitChar(n % 10)>>

(***************************************************************************)
(* The parameter model: utils.ts and the transforms of ImageService.ts.    *)
(***************************************************************************)
NoSize == [ok |-> FALSE]

\* The length of the longest prefix of s, from 0-based offset i, made of
\* decimal digits (the greedy \d* of the regular expression).
RECURSIVE DigitRunEnd(_, _)
DigitRunEnd(s, i) ==
    IF CharAt(s, i) \in Digits THEN DigitRunEnd(s, i + 1) ELSE i

\* /^([1-9]\d*)(?:x([1-9]\d*))?(?:px)?$/i applied to s: the two capture
\* groups, or no match.  The i flag makes x and px match in either case.
SizeRegexMatch(s) ==
    IF CharAt(s, 0) \notin NonZeroDigits THEN [matched |-> FALSE]
    ELSE
        Bind(DigitRunEnd(s, 1), LAMBDA wEnd :
        Bind(/\ CharAt(s, wEnd) \in {"x", "X"}
             /\ CharAt(s, wEnd + 1) \in NonZeroDigits, LAMBDA hasH :
        Bind(IF hasH THEN DigitRunEnd(s, wEnd + 2) ELSE wEnd, LAMBDA hEnd :
        Bind(/\ CharAt(s, hEnd) \in {"p", "P"}
             /\ CharAt(s, hEnd + 1) \in {"x", "X"}, LAMBDA hasPx :
        Bind(IF hasPx THEN hEnd + 2 ELSE hEnd, LAMBDA end :
            IF end # Len(s) THEN [matched |-> FALSE]
            ELSE [matched |-> TRUE,
                  g1 |-> Substring(s, 0, wEnd),
                  hasG2 |-> hasH,
                  g2 |-> IF hasH THEN Substring(s, wEnd + 1, hEnd) ELSE <<>>])))))

\* The parser without the trim of the value.
parseSizeParamUntrimmed(value) ==
    Bind(SizeRegexMatch(value), LAMBDA sizeMatch :
        IF value = <<>> \/ ~sizeMatch.matched THEN NoSize
        ELSE IF ~sizeMatch.hasG2
        THEN [ok |-> TRUE, width |-> ParseInt(sizeMatch.g1), hasHeight |-> FALSE]
        ELSE [ok |-> TRUE, width |-> ParseInt(sizeMatch.g1),
              hasHeight |-> TRUE, height |-> ParseInt(sizeMatch.g2)])

\* parseObsidianImageSizeParam(value)
parseObsidianImageSizeParam(value) ==
    Bind(Trim(value), LAMBDA trimmed :
    Bind(SizeRegexMatch(trimmed), LAMBDA sizeMatch :
        IF trimmed = <<>> THEN NoSize
        ELSE IF ~sizeMatch.matched THEN NoSize
        ELSE
            Bind(ParseInt(sizeMatch.g1), LAMBDA width :
                IF width <= 0 THEN NoSize
                ELSE IF ~sizeMatch.hasG2
                THEN [ok |-> TRUE, width |-> width, hasHeight |-> FALSE]
                ELSE
                    Bind(ParseInt(sizeMatch.g2), LAMBDA height :
                        IF height <= 0
                        THEN [ok |-> TRUE, width |-> width, hasHeight |-> FALSE]
                        ELSE [ok |-> TRUE, width |-> width,
                              hasHeight |-> TRUE, height |-> height]))))

\* The loop of findLastObsidianImageSizeParam from 0-based index `index`
\* downwards.
RECURSIVE FindLastFrom(_, _)
FindLastFrom(values, index) ==
    IF index < 0 THEN [found |-> FALSE]
    ELSE
        Bind(parseObsidianImageSizeParam(values[index + 1]), LAMBDA p :
            IF p.ok
            THEN [found |-> TRUE, index |-> index, width |-> p.width]
            ELSE FindLastFrom(values, index - 1))

\* The scan run from the front of the list: the first size token wins.
findFirstObsidianImageSizeParam(values) ==
    Bind({i \in 0..(Len(values) - 1) : parseObsidianImageSizeParam(values[i + 1]).ok}, LAMBDA hits :
        IF hits = {} THEN [found |-> FALSE]
        ELSE [found |-> TRUE, index |-> Least(hits),
              width |-> parseObsidianImageSizeParam(values[Least(hits) + 1]).width])

\* findLastObsidianImageSizeParam(values)
findLastObsidianImageSizeParam(values) == FindLastFrom(values, Len(values) - 1)

\* params.slice(a, b) for 0 <= a <= b
Slice(list, a, b) == SubSeq(list, a + 1, Min(b, Len(list)))

\* A set-width transform that appends the width without looking for a
\* size token to replace.
SetWidthAppendTransform(ps, newWidth) == ps \o <<NumberToString(newWidth)>>

\* The transform closure of ImageService.updateImageLinkWidth.
SetWidthTransform(ps, newWidth) ==
    Bind(findLastObsidianImageSizeParam(ps), LAMBDA sizeParam :
        IF sizeParam.found
        THEN Slice(ps, 0, sizeParam.index)
                \o <<NumberToString(newWidth)>>
                \o Slice(ps, sizeParam.index + 1, Len(ps))
        ELSE ps \o <<NumberToString(newWidth)>>)

\* A remove-width transform that deletes every size token of the list.
RemoveAllWidthsTransform(ps) ==
    SelectSeq(ps, LAMBDA p : ~parseObsidianImageSizeParam(p).ok)

\* The transform closure of ImageService.removeImageWidth.
RemoveWidthTransform(ps) ==
    Bind(findLastObsidianImageSizeParam(ps), LAMBDA sizeParam :
        IF sizeParam.found
        THEN Slice(ps, 0, sizeParam.index)
                \o Slice(ps, sizeParam.index + 1, Len(ps))
        ELSE ps)

\* A transform is a record [name, width]; ApplyTransform calls it.
ApplyTransform(t, ps) ==
    CASE t.name = "set" -> SetWidthTransform(ps, t.width)
      [] t.name = "remove" -> RemoveWidthTransform(ps)
      [] t.name = "identity" -> ps
      [] t.name = "clear" -> <<>>

(***************************************************************************)
(* encodeURIComponent / decodeURIComponent over ASCII.                     *)
(***************************************************************************)
\* The printable ASCII characters, code 32 (space) to 126 (~), in order
\* (the grave accent, code 96, is written "GRAVE": the lexer has no literal
\* for it).
AsciiPrintable == <<
    " ", "!", "\"", "#", "$", "%", "&", "'", "(", ")", "*", "+",
    ",", "-", ".", "/", "0", "1", "2", "3", "4", "5", "6", "7",
    "8", "9", ":", ";", "<", "=", ">", "?", "@", "A", "B", "C",
    "D", "E", "F", "G", "H", "I", "J", "K", "L", "M", "N", "O",
    "P", "Q", "R", "S", "T", "U", "V", "W", "X", "Y", "Z", "[",
    "\\", "]", "^", "_", "GRAVE", "a", "b", "c", "d", "e", "f", "g",
    "h", "i", "j", "k", "l", "m", "n", "o", "p", "q", "r", "s",
    "t", "u", "v", "w", "x", "y", "z", "{", "|", "}", "~" >>

\* charCodeAt(0) of a character of the model's alphabet.
CharCode(c) ==
    CASE c = "\t" -> 9
      [] c = "\n" -> 10
      [] c = "\r" -> 13
      [] OTHER -> 31 + (CHOOSE i \in 1..Len(AsciiPrintable) : AsciiPrintable[i] = c)

\* String.fromCharCode(code) for the ASCII codes the model can produce.
FromCharCode(code) ==
    CASE code = 9 -> "\t"
      [] code = 10 -> "\n"
      [] code = 13 -> "\r"
      [] code >= 32 /\ code <= 126 -> AsciiPrintable[code - 31]

HexDigitChars == <<"0", "1", "2", "3", "4", "5", "6", "7", "8", "9",
                   "A", "B", "C", "D", "E", "F">>
LowerHexDigitChars == <<"0", "1", "2", "3", "4", "5", "6", "7", "8", "9",
                        "a", "b", "c", "d", "e", "f">>

IsHexDigit(c) ==
    \E i \in 1..16 : HexDigitChars[i] = c \/ LowerHexDigitChars[i] = c

HexValue(c) ==
    (CHOOSE i \in 1..16 : HexDigitChars[i] = c \/ LowerHexDigitChars[i] = c) - 1

\* `%${code.toString(16).toUpperCase()}` with two digits (code >= 16 for
\* every character escaped here except tab, line feed and carriage return,
\* which encodeURIComponent pads to two digits itself).
PercentEscape(c) ==
    Bind(CharCode(c), LAMBDA code :
        <<"%", HexDigitChars[(code \div 16) + 1], HexDigitChars[(code % 16) + 1]>>)

Letters == {"A", "B", "C", "D", "E", "F", "G", "H", "I", "J", "K", "L", "M",
            "N", "O", "P", "Q", "R", "S", "T", "U", "V", "W", "X", "Y", "Z",
            "a", "b", "c", "d", "e", "f", "g", "h", "i", "j", "k", "l", "m",
            "n", "o", "p", "q", "r", "s", "t", "u", "v", "w", "x", "y", "z"}

\* The characters encodeURIComponent leaves alone.
UriUnreserved == Letters \cup Digits \cup {"-", "_", ".", "!", "~", "*", "'", "(", ")"}

\* encodeURIComponent(value) for ASCII text: character by character.
encodeURIComponent(value) ==
    IF value = <<>> THEN <<>>
    ELSE Flatten([i \in 1..Len(value) |->
                    IF value[i] \in UriUnreserved THEN <<value[i]>>
                    ELSE PercentEscape(value[i])])

\* The value of the escape %XY at 1-based index i of value.
EscapeByte(value, i) == 16 * HexValue(value[i + 1]) + HexValue(value[i + 2])

\* decodeURIComponent(value) throws URIError: some % is not followed by two
\* hex digits, or starts a multi-byte UTF-8 sequence (an escape >= %80),
\* which no text of the model completes.
UriMalformed(value) ==
    \E i \in 1..Len(value) :
        /\ value[i] = "%"
        /\ \/ i + 2 > Len(value)
           \/ ~(IsHexDigit(value[i + 1]) /\ IsHexDigit(value[i + 2]))
           \/ EscapeByte(value, i) >= 128

\* decodeURIComponent(value) when it does not throw: every escape is
\* replaced by its character (the two characters after a % are hex digits,
\* so escapes never overlap).
decodeURIComponent(value) ==
    IF value = <<>> THEN <<>>
    ELSE Flatten([i \in 1..Len(value) |->
                    IF value[i] = "%" THEN <<FromCharCode(EscapeByte(value, i))>>
                    ELSE IF (i > 1 /\ value[i - 1] = "%") \/ (i > 2 /\ value[i - 2] = "%")
                    THEN <<>>
                    ELSE <<value[i]>>])

\* safeDecodeURIComponent(value)
safeDecodeURIComponent(value) ==
    IF UriMalformed(value) THEN value ELSE decodeURIComponent(value)

(***************************************************************************)
(* The vault: the files of the model and the host's link resolution.       *)
(***************************************************************************)
PhotoFile == [path |-> <<"p", "h", "o", "t", "o", ".", "j", "p", "g">>,
              basename |-> <<"p", "h", "o", "t", "o">>]
ShortFile == [path |-> <<"d", "/", "p">>, basename |-> <<"p">>]
SpacedFile ==
    [path |-> <<"I", "m", "a", "g", "e", "s", " ", "&", " ", "F", "i", "l", "e", "s", "/",
                "m", "y", " ", "i", "m", "a", "g", "e", " ", "(", "1", ")", ".", "p", "n", "g">>,
     basename |-> <<"m", "y", " ", "i", "m", "a", "g", "e", " ", "(", "1", ")">>]
OtherFile == [path |-> <<"q">>, basename |-> <<"q">>]
OddFile == [path |-> <<"o", "/", "i", "t", "'", "s", " ", "a", "*", "!">>, basename |-> <<"i", "t", "'", "s", " ", "a", "*", "!">>]
NoteFile == [path |-> <<"n", ".", "m", "d">>, basename |-> <<"n">>]
NullFile == [path |-> <<>>, basename |-> <<>>]

VaultFiles == {PhotoFile, ShortFile, SpacedFile, OtherFile, OddFile, NoteFile}

\* app.metadataCache.getFirstLinkpathDest(linkPath, sourcePath): the host
\* resolves a link path to a file by its full path or, for ShortFile, by its
\* bare file name (the host's shortest-unique-name convention).
getFirstLinkpathDest(linkPath) ==
    IF \E f \in VaultFiles : f.path = linkPath
    THEN CHOOSE f \in VaultFiles : f.path = linkPath
    ELSE IF linkPath = <<"p">> THEN ShortFile
    ELSE NullFile

\* LinkService.resolveLink(linkPath, activeFile, imageFile) as a boolean:
\* whether it returns a file (imageFile is always given by the rewriter).
resolveLink(linkPath, image) ==
    Bind(getFirstLinkpathDest(linkPath), LAMBDA resolvedFile :
        /\ resolvedFile # NullFile
        /\ resolvedFile.path = image.path)

(***************************************************************************)
(* LinkService: the link component parser and the serializer.              *)
(***************************************************************************)
\* A test that every prefix passes.
LooksLikeAnything(s) == TRUE

\* /^[1-9]\d*(?:x[1-9]\d*)?(?:px)?$/i.test(s), the test of line 319
LooksLikeSizeParam(s) == SizeRegexMatch(s).matched

\* parseLinkComponents(mainPart, linkPath); an absent linkPath and an empty
\* one are both falsy and take the wiki-style branch.
parseLinkComponents(mainPart, linkPath) ==
    IF linkPath # <<>>
    THEN
        Bind(SplitLimit(linkPath, "#", 2), LAMBDA parts :
        Bind(parts[1], LAMBDA rawPathWithoutHash :
        Bind(IF Len(parts) >= 2 THEN parts[2] ELSE <<>>, LAMBDA rawHash :
        Bind(IF rawHash # <<>> THEN <<"#">> \o rawHash ELSE <<>>, LAMBDA hash :
            [path |-> safeDecodeURIComponent(rawPathWithoutHash),
             hash |-> hash,
             params |-> Tail(Split(mainPart, "|")),
             isWikiStyle |-> FALSE]))))
    ELSE
        Bind(Split(mainPart, "|"), LAMBDA segs :
        Bind(segs[1], LAMBDA pathAndMaybeHash :
        Bind(Tail(segs), LAMBDA rawParams :
        Bind(IndexOf(pathAndMaybeHash, <<"#">>, 0), LAMBDA hashIndex :
            IF hashIndex >= 0
            THEN [path |-> Substring(pathAndMaybeHash, 0, hashIndex),
                  hash |-> Substring(pathAndMaybeHash, hashIndex, Len(pathAndMaybeHash)),
                  params |-> rawParams,
                  isWikiStyle |-> TRUE]
            ELSE IF Len(rawParams) > 0
            THEN
                Bind(rawParams[Len(rawParams)], LAMBDA lastParam :
                Bind(IndexOf(lastParam, <<"#">>, 0), LAMBDA lastHashIndex :
                Bind(Substring(lastParam, 0, lastHashIndex), LAMBDA paramPrefix :
                Bind(Substring(lastParam, lastHashIndex, Len(lastParam)), LAMBDA hashSuffix :
                    IF lastHashIndex >= 0 /\ LooksLikeSizeParam(paramPrefix)
                    THEN [path |-> pathAndMaybeHash,
                          hash |-> hashSuffix,
                          params |-> [rawParams EXCEPT ![Len(rawParams)] = paramPrefix],
                          isWikiStyle |-> TRUE]
                    ELSE [path |-> pathAndMaybeHash, hash |-> <<>>,
                          params |-> rawParams, isWikiStyle |-> TRUE]))))
            ELSE [path |-> pathAndMaybeHash, hash |-> <<>>,
                  params |-> rawParams, isWikiStyle |-> TRUE]))))

\* No escaping beyond encodeURIComponent's.
EscapeNothing(s) == s

\* encodeMarkdownPathSegment(value): encodeURIComponent, then ! ' ( ) * are
\* percent-escaped too.
EscapeEmbedChars(s) ==
    IF s = <<>> THEN <<>>
    ELSE Flatten([i \in 1..Len(s) |->
                    IF s[i] \in {"!", "'", "(", ")", "*"} THEN PercentEscape(s[i])
                    ELSE <<s[i]>>])

encodeMarkdownPathSegment(value) == EscapeEmbedChars(encodeURIComponent(value))

\* segments.map(encodeMarkdownPathSegment)
RECURSIVE MapEncodeSegments(_)
MapEncodeSegments(segments) ==
    IF segments = <<>> THEN <<>>
    ELSE <<encodeMarkdownPathSegment(Head(segments))>> \o MapEncodeSegments(Tail(segments))

\* The serializer with the fragment written directly after the path, ahead
\* of the parameters.
buildLinkPathFragmentFirst(link, encode) ==
    Bind(IF Len(link.params) > 0
         THEN <<"|">> \o Join(link.params, "|") ELSE <<>>, LAMBDA paramsStr :
    Bind(IF encode
         THEN Join(MapEncodeSegments(Split(link.path, "/")), "/")
         ELSE link.path, LAMBDA finalPath :
        finalPath \o link.hash \o paramsStr))

\* buildLinkPath(link, encode)
buildLinkPath(link, encode) ==
    Bind(IF Len(link.params) > 0
         THEN <<"|">> \o Join(link.params, "|") ELSE <<>>, LAMBDA paramsStr :
    Bind(IF encode
         THEN Join(MapEncodeSegments(Split(link.path, "/")), "/")
         ELSE link.path, LAMBDA finalPath :
        finalPath \o paramsStr \o link.hash))

(***************************************************************************)
(* LinkService: the document scanners.                                     *)
(***************************************************************************)
\* The scanning loops advance a cursor one character at a time, and two at
\* a backslash (char === '\\' => cursor += 2), so the character after a
\* backslash the loop has looked at is never looked at.  A loop started at
\* offset from looks at offset p >= from exactly when the run of
\* backslashes that ends right before p (and does not reach below from) has
\* even length.
BackslashRun(text, from, p) ==
    Least({k \in 0..(p - from) : k = p - from \/ CharAt(text, p - 1 - k) # "\\"})

LooksAt(text, from, p) == BackslashRun(text, from, p) % 2 = 0

\* The offsets in from..(text.length - 1) a loop looks at, where the
\* character is c.
Seen(text, from, c) ==
    {p \in from..(Len(text) - 1) : CharAt(text, p) = c /\ LooksAt(text, from, p)}

\* The value of the cursor when a loop runs off the end of the text: one
\* past the end when the last character is a backslash the loop looked at.
RunOff(text, from) ==
    IF from < Len(text) /\ CharAt(text, Len(text) - 1) = "\\"
       /\ LooksAt(text, from, Len(text) - 1)
    THEN Len(text) + 1 ELSE Max(from, Len(text))

\* The caption loop of scanMarkdownImageLinks (lines 39-50): the offset of
\* the first ] the loop looks at from cursor, or -1.
ScanAltEnd(text, cursor) ==
    IF Seen(text, cursor, "]") = {} THEN -1 ELSE Least(Seen(text, cursor, "]"))

\* The destination loop (lines 66-81) started at cursor with the given
\* depth: ( adds one, ) takes one away, and the loop stops at the first )
\* that leaves the depth at zero; -1 when there is none.
DepthAfter(text, cursor, depth, p) ==
    depth + Cardinality({q \in Seen(text, cursor, "(") : q <= p})
          - Cardinality({q \in Seen(text, cursor, ")") : q <= p})

ScanDestEnd(text, cursor, depth) ==
    IF \E p \in Seen(text, cursor, ")") : DepthAfter(text, cursor, depth, p) = 0
    THEN Least({p \in Seen(text, cursor, ")") : DepthAfter(text, cursor, depth, p) = 0})
    ELSE -1

\* The loops of splitMarkdownLinkDestination (lines 107, 112-120, 131-139).
SkipWhiteSpace(raw, cursor) ==
    Least({p \in cursor..Max(cursor, Len(raw)) :
              p >= Len(raw) \/ CharAt(raw, p) \notin WhiteSpace})

ScanAngleEnd(raw, end) ==
    IF Seen(raw, end, ">") = {} THEN RunOff(raw, end) ELSE Least(Seen(raw, end, ">"))

ScanPlainUrlEnd(raw, cursor) ==
    IF \E c \in WhiteSpace : Seen(raw, cursor, c) # {}
    THEN Least(UNION {Seen(raw, cursor, c) : c \in WhiteSpace})
    ELSE RunOff(raw, cursor)

\* splitMarkdownLinkDestination(destination)
splitMarkdownLinkDestination(destination) ==
    Bind(destination, LAMBDA raw :
    Bind(SkipWhiteSpace(raw, 0), LAMBDA cursor :
    Bind(ScanPlainUrlEnd(raw, cursor), LAMBDA plainEnd :
    Bind([url |-> Trim(Substring(raw, cursor, plainEnd)),
          titleSuffix |-> Substring(raw, plainEnd, Len(raw))], LAMBDA plain :
        IF cursor >= Len(raw) THEN [url |-> <<>>, titleSuffix |-> <<>>]
        ELSE IF CharAt(raw, cursor) = "<"
        THEN
            Bind(ScanAngleEnd(raw, cursor + 1), LAMBDA end :
                IF end < Len(raw) /\ CharAt(raw, end) = ">"
                THEN [url |-> Trim(Substring(raw, cursor + 1, end)),
                      titleSuffix |-> Substring(raw, end + 1, Len(raw))]
                ELSE plain)
        ELSE plain))))

\* An iteration that abandons every opening and scans again from where
\* the opening starts.
ScanIterationRescanning(text, index) ==
    Bind(IndexOf(text, <<"!", "[">>, index), LAMBDA start :
        IF start = -1 THEN [kind |-> "stop", start |-> start, next |-> index]
        ELSE [kind |-> "skip", start |-> start, next |-> start])

\* One iteration of the outer loop of scanMarkdownImageLinks at offset
\* index < text.length: "stop" (break), "skip" (continue from start + 1) or
\* "match" (onMatch is called, continue from the end of the match).
ScanIteration(text, index) ==
    Bind(IndexOf(text, <<"!", "[">>, index), LAMBDA start :
    Bind(ScanAltEnd(text, start + 2), LAMBDA altEnd :
    Bind(altEnd + 1, LAMBDA destStartParen :
    Bind(ScanDestEnd(text, destStartParen, 0), LAMBDA destEndParen :
    Bind(Substring(text, destStartParen + 1, destEndParen), LAMBDA rawDestination :
    Bind(splitMarkdownLinkDestination(rawDestination), LAMBDA dest :
        IF start = -1 THEN [kind |-> "stop", start |-> start, next |-> index]
        ELSE IF altEnd = -1 \/ CharAt(text, altEnd + 1) # "("
        THEN [kind |-> "skip", start |-> start, next |-> start + 1]
        ELSE IF destEndParen = -1
        THEN [kind |-> "stop", start |-> start, next |-> index]
        ELSE [kind |-> "match", start |-> start, next |-> destEndParen + 1,
              match |-> [start |-> start,
                         end |-> destEndParen + 1,
                         fullMatch |-> Substring(text, start, destEndParen + 1),
                         description |-> Substring(text, start + 2, altEnd),
                         linkPath |-> dest.url,
                         titleSuffix |-> dest.titleSuffix,
                         rawDestination |-> rawDestination]]))))))

\* The outer loop of scanMarkdownImageLinks from offset index: the matches
\* handed to onMatch, in order.
RECURSIVE ScanMarkdownFrom(_, _)
ScanMarkdownFrom(text, index) ==
    IF index >= Len(text) THEN <<>>
    ELSE
        Bind(ScanIteration(text, index), LAMBDA it :
            CASE it.kind = "stop" -> <<>>
              [] it.kind = "skip" -> ScanMarkdownFrom(text, it.next)
              [] it.kind = "match" -> <<it.match>> \o ScanMarkdownFrom(text, it.next))

\* scanMarkdownImageLinks(text, onMatch)
scanMarkdownImageLinks(text) == ScanMarkdownFrom(text, 0)

\* The end of the run of characters other than ] from offset i ([^\]]+).
NonBracketRunEnd(text, i) ==
    Least({p \in i..Max(i, Len(text)) : p >= Len(text) \/ CharAt(text, p) = "]"})

\* The matches of WIKILINK_IMAGE_REGEX = /!\[\[([^\]]+)\]\]/g from offset
\* index, leftmost first, each with its capture group.
RECURSIVE WikiMatchesFrom(_, _)
WikiMatchesFrom(text, index) ==
    Bind(IndexOf(text, <<"!", "[", "[">>, index), LAMBDA start :
    Bind(NonBracketRunEnd(text, start + 3), LAMBDA innerEnd :
        IF start = -1 THEN <<>>
        ELSE IF innerEnd > start + 3 /\ StartsWithAt(text, <<"]", "]">>, innerEnd)
        THEN <<[start |-> start,
                end |-> innerEnd + 2,
                fullMatch |-> Substring(text, start, innerEnd + 2),
                linkInner |-> Substring(text, start + 3, innerEnd)]>>
             \o WikiMatchesFrom(text, innerEnd + 2)
        ELSE WikiMatchesFrom(text, start + 1)))

WikiMatches(text) == WikiMatchesFrom(text, 0)

(***************************************************************************)
(* LinkService: the rewriter.                                              *)
(***************************************************************************)
\* The callback of text.replace(WIKILINK_IMAGE_REGEX, ...) in updateLinks.
WikiReplacer(m, image, transform) ==
    Bind(parseLinkComponents(m.linkInner, <<>>), LAMBDA link :
        IF ~resolveLink(link.path, image) THEN m.fullMatch
        ELSE <<"!", "[", "[">>
             \o buildLinkPath([link EXCEPT !.params = ApplyTransform(transform, link.params)], FALSE)
             \o <<"]", "]">>)

\* The replacer callback of the markdown-style pass of updateLinks.
MarkdownReplacer(m, image, transform) ==
    Bind(parseLinkComponents(m.description, m.linkPath), LAMBDA link :
    Bind(Trim(Split(m.description, "|")[1]), LAMBDA baseDesc :
    Bind(IF baseDesc # <<>> THEN baseDesc ELSE image.basename, LAMBDA desc :
    Bind(ApplyTransform(transform, link.params), LAMBDA newParams :
    Bind(IF Len(newParams) > 0
         THEN Join(<<desc>> \o newParams, "|") ELSE desc, LAMBDA newDescription :
    Bind(buildLinkPath([link EXCEPT !.params = <<>>], TRUE)
         \o m.titleSuffix, LAMBDA newDestination :
        IF ~resolveLink(link.path, image) THEN m.fullMatch
        ELSE <<"!", "[">> \o newDescription \o <<"]", "(">> \o newDestination \o <<")">>))))))

\* The concatenation loop shared by String.replace and
\* replaceMarkdownImageLinks: text before each match, the replacement, and
\* the text after the last match.  kind selects the replacer.
Replacement(kind, m, image, transform) ==
    CASE kind = "wiki" -> WikiReplacer(m, image, transform)
      [] kind = "markdown" -> MarkdownReplacer(m, image, transform)
      [] kind = "removeWiki" ->
            IF resolveLink(parseLinkComponents(m.linkInner, <<>>).path, image)
            THEN <<>> ELSE m.fullMatch
      [] kind = "removeMarkdown" ->
            IF resolveLink(parseLinkComponents(m.description, m.linkPath).path, image)
            THEN <<>> ELSE m.fullMatch

RECURSIVE ReplaceMatches(_, _, _, _, _, _)
ReplaceMatches(text, matches, lastIndex, kind, image, transform) ==
    IF matches = <<>> THEN Substring(text, lastIndex, Len(text))
    ELSE
        Bind(Head(matches), LAMBDA m :
            Substring(text, lastIndex, m.start)
            \o Replacement(kind, m, image, transform)
            \o ReplaceMatches(text, Tail(matches), m.end, kind, image, transform))

\* updateLinks(text, activeFile, imageFile, transform): the wiki-style pass,
\* then the markdown-style pass over its result.
updateLinks(text, image, transform) ==
    Bind(ReplaceMatches(text, WikiMatches(text), 0, "wiki", image, transform), LAMBDA afterWiki :
        ReplaceMatches(afterWiki, scanMarkdownImageLinks(afterWiki), 0,
                       "markdown", image, transform))

\* /^---\r?\n[\s\S]*?\r?\n---(?:\r?\n|$)/ : the end offset of a match of the
\* closing part \r?\n---(?:\r?\n|$) that starts at offset k, or -1.
LineBreakEnd(text, k) ==
    IF CharAt(text, k) = "\r" /\ CharAt(text, k + 1) = "\n" THEN k + 2
    ELSE IF CharAt(text, k) = "\n" THEN k + 1
    ELSE -1

FrontmatterCloserEnd(text, k) ==
    Bind(LineBreakEnd(text, k), LAMBDA a :
    Bind(a + 3, LAMBDA b :
        IF a = -1 \/ ~StartsWithAt(text, <<"-", "-", "-">>, a) THEN -1
        ELSE IF LineBreakEnd(text, b) # -1 THEN LineBreakEnd(text, b)
        ELSE IF b = Len(text) THEN b
        ELSE -1))

\* The lazy [\s\S]*? : the first offset k >= from where the closing part
\* matches, as the end of the whole match, or -1.
FrontmatterMatchEnd(text, k) ==
    IF \E j \in k..(Len(text) - 1) : FrontmatterCloserEnd(text, j) # -1
    THEN FrontmatterCloserEnd(text,
            Least({j \in k..(Len(text) - 1) : FrontmatterCloserEnd(text, j) # -1}))
    ELSE -1

\* splitFrontmatter(data)
splitFrontmatter(text) ==
    Bind(IF StartsWithAt(text, <<"-", "-", "-">>, 0)
         THEN LineBreakEnd(text, 3) ELSE -1, LAMBDA open :
    Bind(IF open = -1 THEN -1 ELSE FrontmatterMatchEnd(text, open), LAMBDA end :
        IF end = -1 THEN [frontmatter |-> <<>>, content |-> text]
        ELSE [frontmatter |-> Substring(text, 0, end),
              content |-> Substring(text, end, Len(text))]))

\* new URL(value).href for the URLs of the model, "<scheme letter>:<rest>":
\* the scheme is lower-cased; anything else does not parse (ok = FALSE).
UrlHref(value) ==
    IF Len(value) >= 2 /\ value[1] \in Letters /\ value[2] = ":"
    THEN [ok |-> TRUE,
          href |-> <<IF value[1] = "H" THEN "h" ELSE value[1]>> \o Tail(value)]
    ELSE [ok |-> FALSE, href |-> <<>>]

\* normalizeUrlForComparison(value)
normalizeUrlForComparison(value) ==
    Bind(Trim(value), LAMBDA trimmed :
        IF trimmed = <<>> THEN <<>>
        ELSE IF UrlHref(trimmed).ok THEN UrlHref(trimmed).href
        ELSE trimmed)

\* isSameExternalUrl(a, b)
isSameExternalUrl(a, b) == normalizeUrlForComparison(a) = normalizeUrlForComparison(b)

\* The replacer callback of updateExternalLinks.
ExternalReplacer(m, url, transform) ==
    Bind(Split(m.description, "|"), LAMBDA parts :
    Bind(Trim(parts[1]), LAMBDA baseDesc :
    Bind(ApplyTransform(transform, Tail(parts)), LAMBDA newParams :
    Bind(IF Len(newParams) > 0
         THEN Join(<<baseDesc>> \o newParams, "|") ELSE baseDesc, LAMBDA newDescription :
        IF ~isSameExternalUrl(m.linkPath, url) THEN m.fullMatch
        ELSE <<"!", "[">> \o newDescription \o <<"]", "(">> \o m.rawDestination \o <<")">>))))

RECURSIVE ReplaceExternalMatches(_, _, _, _, _)
ReplaceExternalMatches(text, matches, lastIndex, url, transform) ==
    IF matches = <<>> THEN Substring(text, lastIndex, Len(text))
    ELSE
        Bind(Head(matches), LAMBDA m :
            Substring(text, lastIndex, m.start)
            \o ExternalReplacer(m, url, transform)
            \o ReplaceExternalMatches(text, Tail(matches), m.end, url, transform))

\* updateExternalLinks(text, imageUrl, transform)
updateExternalLinks(text, url, transform) ==
    ReplaceExternalMatches(text, scanMarkdownImageLinks(text), 0, url, transform)

\* The body of removeImageLinks' process callback on the content.
RemoveLinks(content, image) ==
    Bind(ReplaceMatches(content, WikiMatches(content), 0,
                        "removeWiki", image, [name |-> "identity"]), LAMBDA afterWiki :
        ReplaceMatches(afterWiki, scanMarkdownImageLinks(afterWiki), 0,
                       "removeMarkdown", image, [name |-> "identity"]))

\* The write-back with the frontmatter block left out of the result.
SplicedWithoutFrontmatter(text, replacedText) ==
    IF replacedText = splitFrontmatter(text).content THEN text ELSE replacedText

\* The callbacks handed to vault.process by updateImageLinks,
\* updateExternalImageLinks and removeImageLinks: from the latest file
\* content to the content written back.
Spliced(text, replacedText) ==
    Bind(splitFrontmatter(text), LAMBDA fm :
        IF replacedText = fm.content THEN text
        ELSE IF fm.frontmatter # <<>> THEN fm.frontmatter \o replacedText
        ELSE replacedText)

UpdateImageLinksCallback(text, image, transform) ==
    Spliced(text, updateLinks(splitFrontmatter(text).content, image, transform))

UpdateExternalImageLinksCallback(text, url, transform) ==
    Spliced(text, updateExternalLinks(splitFrontmatter(text).content, url, transform))

RemoveImageLinksCallback(text, image) ==
    Spliced(text, RemoveLinks(splitFrontmatter(text).content, image))

(***************************************************************************)
(* LinkService: the asynchronous operations around vault.process.          *)
(***************************************************************************)
\* A guard that lets every note through.
NeverSelfTarget(active, image) == FALSE

\* activeFile.path === imageFile.path
IsSelfTarget(active, image) == active.path = image.path

\* A change flag that is raised on every call of the callback.
DidChangeAlways(content, replacedText) == TRUE

\* didChange: the callback sets it unless replacedText === content.
DidChange(content, replacedText) == replacedText # content

\* The errors of the model: what the host's vault rejects with, what a
\* caller-supplied transform throws, and the messages of the Errors the
\* catch blocks of LinkService throw.
IOError == "IOError"
TransformError == "TransformError"
FailedToUpdateImageLink == "Error: Failed to update image link"
FailedToUpdateExternalImageLink == "Error: Failed to update external image link"
FailedToRemoveImageLinks == "Error: Failed to remove image links"

\* A transform that throws when it is called.
ThrowingTransform == [width |-> 0, name |-> "throw"]

\* Whether updateLinks calls the transform at all: some wiki-style match
\* resolves to the image, or none does (the first pass leaves the text as it
\* is) and some markdown-style match resolves to it.
TransformCalled(content, image) ==
    \/ \E i \in 1..Len(WikiMatches(content)) :
          resolveLink(parseLinkComponents(WikiMatches(content)[i].linkInner, <<>>).path, image)
    \/ \E i \in 1..Len(scanMarkdownImageLinks(content)) :
          resolveLink(parseLinkComponents(scanMarkdownImageLinks(content)[i].description,
                                          scanMarkdownImageLinks(content)[i].linkPath).path, image)

\* Whether updateExternalLinks calls the transform: some match has the URL.
ExternalTransformCalled(content, url) ==
    \E i \in 1..Len(scanMarkdownImageLinks(content)) :
        isSameExternalUrl(scanMarkdownImageLinks(content)[i].linkPath, url)

\* await vault.process(file, fn) on a file that holds text.  The host reads
\* the file, calls fn on what it read and writes what fn returned; it
\* rejects with its own error when the read or the write fails, and with
\* fn's error when fn throws.  threw and result are what fn does on text.
VaultProcess(text, threw, result, fault) ==
    IF fault = "read"
    THEN [data |-> text, error |-> IOError, returned |-> text]
    ELSE IF threw
    THEN [data |-> text, error |-> TransformError, returned |-> text]
    ELSE IF fault = "write"
    THEN [data |-> text, error |-> IOError, returned |-> result]
    ELSE [data |-> result, error |-> "none", returned |-> result]

\* How a call settles after await vault.process(...) inside try/catch: the
\* catch block throws a new Error whatever it caught.
Settle(p, message, didChange) ==
    [data |-> p.data,
     result |-> IF p.error # "none" THEN message
                ELSE IF didChange THEN "true" ELSE "false",
     processCalls |-> 1,
     returned |-> p.returned,
     cause |-> p.error]

\* What a call does when it returns before the try block.
NotProcessed(text) ==
    [data |-> text, result |-> "false", processCalls |-> 0, returned |-> text,
     cause |-> "none"]

\* LinkService.updateImageLinks(activeFile, imageFile, transform) on a note
\* that holds text: the text left in the vault, how the promise settles
\* ("true", "false" or the message of the Error it rejects with), the number
\* of calls of vault.process, what the callback returned, and the error the
\* catch block caught.
updateImageLinks(text, active, image, transform, fault) ==
    IF IsSelfTarget(active, image) THEN NotProcessed(text)
    ELSE
        Bind(splitFrontmatter(text).content, LAMBDA content :
        Bind(transform.name = "throw" /\ TransformCalled(content, image), LAMBDA threw :
        Bind(IF threw THEN content ELSE updateLinks(content, image, transform), LAMBDA replacedText :
            Settle(VaultProcess(text, threw, Spliced(text, replacedText), fault),
                   FailedToUpdateImageLink, DidChange(content, replacedText)))))

\* LinkService.updateExternalImageLinks(activeFile, imageUrl, transform)
updateExternalImageLinks(text, url, transform, fault) ==
    Bind(splitFrontmatter(text).content, LAMBDA content :
    Bind(transform.name = "throw" /\ ExternalTransformCalled(content, url), LAMBDA threw :
    Bind(IF threw THEN content ELSE updateExternalLinks(content, url, transform), LAMBDA replacedText :
        Settle(VaultProcess(text, threw, Spliced(text, replacedText), fault),
               FailedToUpdateExternalImageLink, DidChange(content, replacedText)))))

\* LinkService.removeImageLinks(imageFile), the active file being a note
removeImageLinks(text, active, image, fault) ==
    IF IsSelfTarget(active, image) THEN NotProcessed(text)
    ELSE
        Bind(splitFrontmatter(text).content, LAMBDA content :
        Bind(RemoveLinks(content, image), LAMBDA replacedText :
            Settle(VaultProcess(text, FALSE, Spliced(text, replacedText), fault),
                   FailedToRemoveImageLinks, DidChange(content, replacedText))))

\* findCurrentImageWidthInText(activeFile, imageFile, text): the width of
\* the first wiki-style match that resolves to the image and has a size
\* parameter, else of the first such markdown-style match, else null (0).
RECURSIVE FirstWikiWidth(_, _)
FirstWikiWidth(matches, image) ==
    IF matches = <<>> THEN 0
    ELSE
        Bind(parseLinkComponents(Head(matches).linkInner, <<>>), LAMBDA link :
        Bind(findLastObsidianImageSizeParam(link.params), LAMBDA sizeParam :
            IF resolveLink(link.path, image) /\ sizeParam.found THEN sizeParam.width
            ELSE FirstWikiWidth(Tail(matches), image)))

RECURSIVE FirstMarkdownWidth(_, _)
FirstMarkdownWidth(matches, image) ==
    IF matches = <<>> THEN 0
    ELSE
        Bind(parseLinkComponents(Head(matches).description, Head(matches).linkPath), LAMBDA link :
        Bind(findLastObsidianImageSizeParam(link.params), LAMBDA sizeParam :
            IF resolveLink(link.path, image) /\ sizeParam.found THEN sizeParam.width
            ELSE FirstMarkdownWidth(Tail(matches), image)))

findCurrentImageWidthInText(image, text) ==
    IF FirstWikiWidth(WikiMatches(text), image) # 0
    THEN FirstWikiWidth(WikiMatches(text), image)
    ELSE FirstMarkdownWidth(scanMarkdownImageLinks(text), image)

\* findCurrentExternalImageWidthInText(imageUrl, text)
RECURSIVE FirstExternalWidth(_, _)
FirstExternalWidth(matches, url) ==
    IF matches = <<>> THEN 0
    ELSE
        Bind(findLastObsidianImageSizeParam(Tail(Split(Head(matches).description, "|"))), LAMBDA sizeParam :
            IF isSameExternalUrl(Head(matches).linkPath, url) /\ sizeParam.found
            THEN sizeParam.width
            ELSE FirstExternalWidth(Tail(matches), url))

findCurrentExternalImageWidthInText(url, text) ==
    FirstExternalWidth(scanMarkdownImageLinks(text), url)

(***************************************************************************)
(* EventService: wheel zoom with debounced, per-key serialized writes.     *)
(* A Map is a function on the keys of the model, 0 (FALSE for              *)
(* wheelTargets) standing for an absent entry: widths, timer handles and   *)
(* writeTask numbers are all at least 1.                                   *)
(***************************************************************************)
\* getWheelWidthCacheKey(activeFile, target) for the note and its two
\* images, the vault image d/p and the external image h:u.
LocalKey == "n.md::local::d/p"
RemoteKey == "n.md::remote::h:u"
Keys == {LocalKey, RemoteKey}
KeyOrder == <<LocalKey, RemoteKey>>

NoEntries == [k \in Keys |-> 0]
NoTargets == [k \in Keys |-> FALSE]
NoComputes == [k \in Keys |-> <<>>]

\* The fields of the EventService object, with the promises it has created
\* and the host's timer handle counter.
Service ==
    [isModifierKeyHeld |-> isModifierKeyHeld,
     listening |-> listening,
     wheelWidthCache |-> wheelWidthCache,
     wheelPendingWidth |-> wheelPendingWidth,
     wheelDebounceTimers |-> wheelDebounceTimers,
     wheelMaxWaitTimers |-> wheelMaxWaitTimers,
     wheelTargets |-> wheelTargets,
     wheelWriteQueue |-> wheelWriteQueue,
     wheelComputes |-> wheelComputes,
     writeTasks |-> writeTasks,
     timerSeq |-> timerSeq]

\* A scheduler that starts a new max-wait timer on every call.
scheduleFlushResettingMaxWait(S, cacheKey) ==
    [S EXCEPT !.wheelTargets[cacheKey] = TRUE,
              !.wheelDebounceTimers[cacheKey] = S.timerSeq + 1,
              !.wheelMaxWaitTimers[cacheKey] = S.timerSeq + 2,
              !.timerSeq = S.timerSeq + 2]

\* scheduleWheelWidthFlush(cacheKey, activeFile, target): clearTimeout of the
\* armed debounce timer and a new one in its place; a max-wait timer only
\* when the key has none.
scheduleWheelWidthFlush(S, cacheKey) ==
    Bind(S.timerSeq + 1, LAMBDA debounceTimer :
        IF S.wheelMaxWaitTimers[cacheKey] = 0
        THEN [S EXCEPT !.wheelTargets[cacheKey] = TRUE,
                       !.wheelDebounceTimers[cacheKey] = debounceTimer,
                       !.wheelMaxWaitTimers[cacheKey] = debounceTimer + 1,
                       !.timerSeq = debounceTimer + 1]
        ELSE [S EXCEPT !.wheelTargets[cacheKey] = TRUE,
                       !.wheelDebounceTimers[cacheKey] = debounceTimer,
                       !.timerSeq = debounceTimer])

\* A flush that drops the pending width and writes nothing.
flushWithoutWrite(S, cacheKey) == [S EXCEPT !.wheelPendingWidth[cacheKey] = 0]

\* flushWheelPendingWidth(cacheKey), the synchronous part: a new writeTask
\* chained behind the one in wheelWriteQueue (after = 0: behind
\* Promise.resolve()), which takes its place in the queue.
flushWheelPendingWidth(S, cacheKey) ==
    IF ~S.wheelTargets[cacheKey]
    THEN [S EXCEPT !.wheelPendingWidth[cacheKey] = 0]
    ELSE [S EXCEPT !.writeTasks = Append(@, [key |-> cacheKey,
                                             after |-> S.wheelWriteQueue[cacheKey],
                                             state |-> "queued",
                                             promise |-> "pending",
                                             pendingWidth |-> 0]),
                   !.wheelWriteQueue[cacheKey] = Len(S.writeTasks) + 1]

\* The body of the loop of flushAllPendingWheelWrites for one key.
FlushKey(S, cacheKey) ==
    IF S.wheelPendingWidth[cacheKey] = 0 THEN S
    ELSE flushWheelPendingWidth(
            [S EXCEPT !.wheelDebounceTimers[cacheKey] = 0,
                      !.wheelMaxWaitTimers[cacheKey] = 0], cacheKey)

RECURSIVE FlushKeysFrom(_, _)
FlushKeysFrom(S, i) ==
    IF i > Len(KeyOrder) THEN S
    ELSE FlushKeysFrom(FlushKey(S, KeyOrder[i]), i + 1)

\* A flush-all that flushes nothing.
flushNothing(S) == S

\* flushAllPendingWheelWrites(): for (const cacheKey of
\* this.wheelPendingWidth.keys()) ...
flushAllPendingWheelWrites(S) == FlushKeysFrom(S, 1)

\* EventService.cleanup(): the compute promises already chained stay
\* chained (wheelComputeQueue only holds the tail of each chain), and so do
\* the writeTasks.
cleanup(S) ==
    Bind(flushAllPendingWheelWrites([S EXCEPT !.isModifierKeyHeld = FALSE]), LAMBDA s :
        [s EXCEPT !.wheelWidthCache = NoEntries,
                  !.wheelPendingWidth = NoEntries,
                  !.wheelDebounceTimers = NoEntries,
                  !.wheelMaxWaitTimers = NoEntries,
                  !.wheelTargets = NoTargets,
                  !.wheelWriteQueue = NoEntries,
                  !.listening = FALSE])

\* A .finally() that never schedules another flush.
writeTaskFinallyForgetting(S, task) ==
    [S EXCEPT !.wheelWriteQueue[S.writeTasks[task].key] = IF @ = task THEN 0 ELSE @,
              !.wheelMaxWaitTimers[S.writeTasks[task].key] = 0,
              !.wheelTargets[S.writeTasks[task].key] = FALSE,
              !.writeTasks[task].state = "done",
              !.writeTasks[task].promise = "fulfilled"]

\* The .finally() of writeTask number task.
writeTaskFinally(S, task) ==
    Bind(S.writeTasks[task].key, LAMBDA cacheKey :
    Bind([S EXCEPT !.wheelWriteQueue[cacheKey] = IF @ = task THEN 0 ELSE @,
                   !.wheelMaxWaitTimers[cacheKey] = 0,
                   !.writeTasks[task].state = "done",
                   !.writeTasks[task].promise = "fulfilled"], LAMBDA s :
        IF s.wheelPendingWidth[cacheKey] # 0
        THEN scheduleWheelWidthFlush(s, cacheKey)
        ELSE [s EXCEPT !.wheelTargets[cacheKey] = FALSE]))

\* The .then() body of writeTask number task up to its await: it reads the
\* pending width now, and returns when there is none.
writeTaskStart(S, task) ==
    Bind(S.wheelPendingWidth[S.writeTasks[task].key], LAMBDA pendingWidth :
        IF pendingWidth = 0 THEN writeTaskFinally(S, task)
        ELSE [S EXCEPT !.writeTasks[task].state = "writing",
                       !.writeTasks[task].pendingWidth = pendingWidth])

\* A settle that deletes the pending width whatever it is by then.
writeTaskSettleDeleting(S, task, threw) ==
    IF threw THEN writeTaskFinally(S, task)
    ELSE writeTaskFinally(
            [S EXCEPT !.wheelWidthCache[S.writeTasks[task].key] = S.writeTasks[task].pendingWidth,
                      !.wheelPendingWidth[S.writeTasks[task].key] = 0], task)

\* The rest of the body after the await, the .catch() and the .finally():
\* threw tells whether update...ImageLinkWidth threw.
writeTaskSettle(S, task, threw) ==
    Bind(S.writeTasks[task].key, LAMBDA cacheKey :
    Bind(S.writeTasks[task].pendingWidth, LAMBDA pendingWidth :
        IF threw THEN writeTaskFinally(S, task)
        ELSE writeTaskFinally(
                [S EXCEPT !.wheelWidthCache[cacheKey] = pendingWidth,
                          !.wheelPendingWidth[cacheKey] =
                                IF @ = pendingWidth THEN 0 ELSE @], task)))

\* The reactions that run before the next event is handled: each writeTask
\* that is chained behind Promise.resolve() or behind a settled writeTask
\* runs its .then() body up to the await.
RECURSIVE StartWriteTasksFrom(_, _)
StartWriteTasksFrom(S, task) ==
    IF task > Len(S.writeTasks) THEN S
    ELSE IF S.writeTasks[task].state # "queued" THEN StartWriteTasksFrom(S, task + 1)
    ELSE IF S.writeTasks[task].after = 0
    THEN StartWriteTasksFrom(writeTaskStart(S, task), task + 1)
    ELSE IF S.writeTasks[S.writeTasks[task].after].state = "done"
    THEN StartWriteTasksFrom(writeTaskStart(S, task), task + 1)
    ELSE StartWriteTasksFrom(S, task + 1)

runWriteTasks(S) == StartWriteTasksFrom(S, 1)

\* Math.round(x / d) for x >= 0
RoundDiv(x, d) == (2 * x + d) \div (2 * d)

\* The default settings.
WheelZoomPercentage == 20
DefaultExternalFallbackWidth == 500

\* The body of handleImageWheel for one wheel event, once the image
\* width is known: naturalWidth of the DOM image (0 before it has loaded),
\* imageWidth from readImageDimensions (0: it threw), altWidth from the alt
\* attribute (0: null), textWidth from getCurrent(External)ImageWidth (0:
\* null).  The result is the service and whether the width changed.
handleImageWheel(S, cacheKey, deltaY, naturalWidth, imageWidth, altWidth, textWidth) ==
    Bind(IF naturalWidth > 0 THEN naturalWidth
         ELSE IF cacheKey = LocalKey THEN imageWidth
         ELSE DefaultExternalFallbackWidth, LAMBDA width :
    Bind(S.wheelWidthCache[cacheKey], LAMBDA cachedWidth :
    Bind(S.wheelPendingWidth[cacheKey], LAMBDA pendingWidth :
    Bind(IF altWidth # 0 THEN altWidth
         ELSE IF pendingWidth # 0 THEN pendingWidth
         ELSE IF cachedWidth # 0 THEN cachedWidth
         ELSE textWidth, LAMBDA customWidth :
    Bind(IF altWidth # 0
         THEN [S EXCEPT !.wheelWidthCache[cacheKey] = altWidth,
                        !.wheelPendingWidth[cacheKey] = 0]
         ELSE IF cachedWidth # 0 THEN S
         ELSE IF customWidth # 0 THEN [S EXCEPT !.wheelWidthCache[cacheKey] = customWidth]
         ELSE S, LAMBDA s :
    Bind(IF customWidth # 0 THEN customWidth ELSE width, LAMBDA currentWidth :
    Bind(Min(10, IF deltaY < 0 THEN -deltaY ELSE deltaY), LAMBDA deltaScaleTenths :
    Bind(Max(1, RoundDiv(currentWidth * WheelZoomPercentage * deltaScaleTenths, 1000)), LAMBDA stepSize :
    Bind(IF deltaY < 0 THEN currentWidth + stepSize
         ELSE Max(1, currentWidth - stepSize), LAMBDA newWidth :
        IF width = 0 THEN [service |-> S, resized |-> FALSE]
        ELSE IF newWidth # currentWidth
        THEN [service |-> scheduleWheelWidthFlush(
                            [s EXCEPT !.wheelWidthCache[cacheKey] = newWidth,
                                      !.wheelPendingWidth[cacheKey] = newWidth], cacheKey),
              resized |-> TRUE]
        ELSE [service |-> s, resized |-> FALSE])))))))))

\* The chain of wheel computations of a key, wheelComputeQueue, from its
\* oldest member on: a computation that finds naturalWidth > 0, or an
\* external image, runs to its end and lets the next one run; one that has
\* to await readImageDimensions stays at the head, reading.
RECURSIVE runComputes(_, _, _, _, _)
runComputes(S, cacheKey, naturalWidth, altWidth, textWidth) ==
    IF S.wheelComputes[cacheKey] = <<>> THEN S
    ELSE IF Head(S.wheelComputes[cacheKey]).reading THEN S
    ELSE IF naturalWidth = 0 /\ cacheKey = LocalKey
    THEN [S EXCEPT !.wheelComputes[cacheKey][1].reading = TRUE]
    ELSE runComputes(
            handleImageWheel([S EXCEPT !.wheelComputes[cacheKey] = Tail(@)], cacheKey,
                             Head(S.wheelComputes[cacheKey]).deltaY, naturalWidth, 0,
                             altWidth, textWidth).service,
            cacheKey, naturalWidth, altWidth, textWidth)

\* readImageDimensions settles for the computation at the head of the chain
\* (imageWidth 0: it rejects), which runs to its end and lets the next run.
readImageDimensionsSettled(S, cacheKey, imageWidth, naturalWidth, altWidth, textWidth) ==
    runComputes(
        handleImageWheel([S EXCEPT !.wheelComputes[cacheKey] = Tail(@)], cacheKey,
                         Head(S.wheelComputes[cacheKey]).deltaY, 0, imageWidth,
                         altWidth, textWidth).service,
        cacheKey, naturalWidth, altWidth, textWidth)

(***************************************************************************)
(* State machines.  Each specification draws its input in Init and applies *)
(* the operations of the program to it.                                    *)
(***************************************************************************)
NoOp == [width |-> 0, name |-> "none"]
NotFound == [found |-> FALSE]

\* All sequences over alphabet of length at most n.
SeqsUpTo(alphabet, n) == UNION {[1..k -> alphabet] : k \in 0..n}

\* The widths a resize asks for.
Widths == {75, 200, 300, 600}

TokenIdle == token = <<>> /\ parsed = NoSize
ParamsIdle == params = <<>> /\ oldParams = <<>> /\ foundParam = NotFound
DocIdle == data = <<>> /\ prevData = <<>> /\ imageFile = NullFile /\ imageUrl = <<>>
ScanIdle == scanState = "idle" /\ scanIndex = 0 /\ scanMatches = <<>>
CallIdle ==
    callResult = "none" /\ processCalls = 0 /\ returned = <<>> /\ vaultFault = "none"
NoLink == [params |-> <<>>, path |-> <<>>, hash |-> <<>>, isWikiStyle |-> FALSE]
LinkIdle == linkMain = <<>> /\ linkDest = <<>> /\ linkParts = NoLink
NoEvent == [name |-> "none", key |-> "none"]
NoTeardown == [pending |-> <<>>, unsettled |-> {}, writes |-> 0]
WheelIdle ==
    /\ isModifierKeyHeld = FALSE /\ listening = FALSE /\ unloaded = FALSE
    /\ wheelWidthCache = <<>> /\ wheelPendingWidth = <<>>
    /\ wheelDebounceTimers = <<>> /\ wheelMaxWaitTimers = <<>>
    /\ wheelTargets = <<>> /\ wheelWriteQueue = <<>>
    /\ wheelComputes = <<>> /\ writeTasks = <<>> /\ timerSeq = 0
    /\ wheelWrites = <<>> /\ atTeardown = NoTeardown /\ lastEvent = NoEvent

tokenVars == <<token, parsed>>
paramVars == <<params, oldParams, foundParam>>
docVars == <<data, prevData, imageFile, imageUrl>>
scanVars == <<scanState, scanIndex, scanMatches>>
callVars == <<callResult, processCalls, returned, vaultFault>>
linkVars == <<linkMain, linkDest, linkParts>>
wheelVars == <<isModifierKeyHeld, listening, unloaded, wheelWidthCache,
               wheelPendingWidth, wheelDebounceTimers, wheelMaxWaitTimers,
               wheelTargets, wheelWriteQueue, wheelComputes, writeTasks,
               timerSeq, wheelWrites, atTeardown, lastEvent>>
wheelVarsButEvent == <<isModifierKeyHeld, listening, unloaded, wheelWidthCache,
                       wheelPendingWidth, wheelDebounceTimers, wheelMaxWaitTimers,
                       wheelTargets, wheelWriteQueue, wheelComputes, writeTasks,
                       timerSeq, wheelWrites, atTeardown>>

(***************************************************************************)
(* SpecToken: parseObsidianImageSizeParam on one token.                    *)
(***************************************************************************)
TokenAlphabet == {"0", "3", "x", "X", "p", "P", "-", " ", "a"}

ExampleTokens == {<<"3", "0", "0">>, <<"3", "0", "0", "x", "2", "0", "0">>, <<"3", "0", "0", "p", "x">>, <<"0">>, <<"-", "5">>, <<"3", "0", "0", "x", "p", "x">>,
                  <<"a", "b", "c">>, <<"0", "3", "0", "0">>, <<"3", "0", "0", "x", "0", "2", "0", "0">>, <<" ", "3", "0", "0", "x", "2", "0", "0", "P", "X", " ">>}

InitToken ==
    /\ token \in SeqsUpTo(TokenAlphabet, MaxTokenLen) \cup ExampleTokens
    /\ parsed = NoSize
    /\ lastOp = NoOp
    /\ steps = 0
    /\ ParamsIdle /\ DocIdle /\ ScanIdle /\ CallIdle /\ WheelIdle /\ LinkIdle

ParseToken ==
    /\ lastOp.name = "none"
    /\ parsed' = parseObsidianImageSizeParam(token)
    /\ lastOp' = [width |-> 0, name |-> "parse"]
    /\ steps' = steps + 1
    /\ UNCHANGED <<token, paramVars, docVars, scanVars, callVars, wheelVars, linkVars>>

NextToken == ParseToken

SpecToken == InitToken /\ [][NextToken]_vars

(***************************************************************************)
(* SpecParams: the transforms and findLastObsidianImageSizeParam on a      *)
(* parameter list.                                                         *)
(***************************************************************************)
ParamTokens == {<<"l", "e", "f", "t">>, <<"3", "0", "0">>, <<"4", "0", "0">>, <<"7", "x", "5">>, <<"9", "P", "X">>, <<" ", "8", " ">>, <<"0">>, <<"5", "#", "h">>, <<>>}

InitParams ==
    /\ params \in SeqsUpTo(ParamTokens, MaxParams)
    /\ oldParams = params
    /\ foundParam = NotFound
    /\ lastOp = NoOp
    /\ steps = 0
    /\ TokenIdle /\ DocIdle /\ ScanIdle /\ CallIdle /\ WheelIdle /\ LinkIdle

\* One call of a transform closure on the current parameter list.
TransformParams(t) ==
    /\ steps < MaxSteps
    /\ oldParams' = params
    /\ params' = ApplyTransform(t, params)
    /\ lastOp' = t
    /\ steps' = steps + 1
    /\ UNCHANGED <<foundParam, tokenVars, docVars, scanVars, callVars, wheelVars, linkVars>>

SetWidthOnParams == \E w \in Widths : TransformParams([width |-> w, name |-> "set"])

RemoveWidthOnParams == TransformParams([width |-> 0, name |-> "remove"])

FindLastSizeParam ==
    /\ steps < MaxSteps
    /\ foundParam' = findLastObsidianImageSizeParam(params)
    /\ lastOp' = [width |-> 0, name |-> "find"]
    /\ steps' = steps + 1
    /\ UNCHANGED <<params, oldParams, tokenVars, docVars, scanVars, callVars, wheelVars, linkVars>>

NextParams == SetWidthOnParams \/ RemoveWidthOnParams \/ FindLastSizeParam

SpecParams == InitParams /\ [][NextParams]_vars

(***************************************************************************)
(* SpecDoc: the rewriting operations on one note.  The note's text and the *)
(* image (or URL) the user acts on are drawn in Init; each action is one   *)
(* call of an operation, whose vault.process callback runs atomically on   *)
(* the latest content.  A behaviour is one call on the drawn note.         *)
(***************************************************************************)
\* The note open in the editor (workspace.getActiveFile()).
ActiveFile == NoteFile

\* Fragments of note text: embeds of ShortFile ("d/p", also reached as "p"),
\* of OtherFile ("q") and of the URL "h:u", in both styles, well-formed and
\* not, and prose.
Pieces ==
    { <<"!", "[", "[", "p", "#", "h", "|", "5", "]", "]">>, <<"!", "[", "[", "p", "|", "5", "|", "l", "|", "6", "#", "h", "]", "]">>, <<"!", "[", "[", "q", "|", "9", "x", "9", "]", "]">>,
      <<"!", "[", " ", "]", "(", "p", ")">>, <<"!", "[", "p", "]", "(", ")">>, <<"!", "[", "c", "]", "(", "<", "p", ">", " ", "\"", "t", "\"", ")">>,
      <<"!", "[", "c", "|", "5", "|", "6", "]", "(", "%", "6", "4", "/", "p", "#", "a", "#", "b", ")">>, <<"!", "[", "e", "|", "5", "]", "(", "H", ":", "u", ")">>, <<"!", "[", "a", "]", "(", "(">>, <<"a", "\n">> }

PieceDocs == {Flatten(list) : list \in SeqsUpTo(Pieces, MaxPieces)}

\* The documents of the specification's scenarios.
ScenarioDocs ==
    { <<"!", "[", "[", "p", "h", "o", "t", "o", ".", "j", "p", "g", "|", "5", "0", "]", "]">>, <<"!", "[", "c", "a", "p", "t", "i", "o", "n", "|", "5", "0", "]", "(", "p", "h", "o", "t", "o", ".", "j", "p", "g", ")">>, <<"!", "[", "[", "p", "h", "o", "t", "o", ".", "j", "p", "g", "]", "]">>,
      <<"!", "[", "[", "p", "h", "o", "t", "o", ".", "j", "p", "g", "#", "h", "e", "a", "d", "i", "n", "g", "|", "5", "0", "]", "]">>, <<"H", "e", "r", "e", "'", "s", " ", "a", "n", " ", "i", "m", "a", "g", "e", ":", " ", "!", "[", "[", "p", "h", "o", "t", "o", ".", "j", "p", "g", "|", "5", "0", "]", "]">>,
      <<"!", "[", "]", "(", "I", "m", "a", "g", "e", "s", "%", "2", "0", "%", "2", "6", "%", "2", "0", "F", "i", "l", "e", "s", "/", "m", "y", "%", "2", "0", "i", "m", "a", "g", "e", "%", "2", "0", "%", "2", "8", "1", "%", "2", "9", ".", "p", "n", "g", ")">>,
      <<"!", "[", " ", "]", "(", "<", "I", "m", "a", "g", "e", "s", " ", "&", " ", "F", "i", "l", "e", "s", "/", "m", "y", " ", "i", "m", "a", "g", "e", " ", "(", "1", ")", ".", "p", "n", "g", ">", ")">>,
      <<"-", "-", "-", "\n", "t", "i", "t", "l", "e", ":", " ", "x", "\n", "-", "-", "-", "\n", "!", "[", "[", "p", "h", "o", "t", "o", ".", "j", "p", "g", "|", "5", "0", "]", "]">>,
      <<"!", "[", "[", "n", ".", "m", "d", "|", "5", "0", "]", "]", " ", "!", "[", "[", "p", "h", "o", "t", "o", ".", "j", "p", "g", "|", "3", "0", "0", "x", "2", "0", "0", "|", "l", "e", "f", "t", "]", "]">>,
      <<"!", "[", "]", "(", "<", "o", "/", "i", "t", "'", "s", " ", "a", "*", "!", ">", ")">> }

\* Notes that open with (something like) a frontmatter block.
FrontBlocks ==
    { <<"-", "-", "-", "\n", "t", "\n", "-", "-", "-", "\n">>, <<"-", "-", "-", "\n", "!", "[", "[", "p", "|", "5", "]", "]", "\n", "-", "-", "-", "\n">>, <<"-", "-", "-", "\n", "-", "-", "-", "\n">>, <<"-", "-", "-", "\n", "t", "\n">>,
      <<"-", "-", "-", "\r", "\n", "!", "[", "c", "]", "(", "p", ")", "\r", "\n", "-", "-", "-", "\r", "\n">>, <<"-", "-", "-", "\n", "t", "\n", "-", "-", "-">>, <<"-", "-", "-", " ", "\n", "t", "\n", "-", "-", "-", "\n">>,
      <<"-", "-", "-", "\n", "t", "\n", "-", "-", "-", "\n", "-", "-", "-", "\n">> }

FrontDocs ==
    {b \o Flatten(list) \o t :
        b \in FrontBlocks, list \in SeqsUpTo(Pieces, MaxPieces - 1), t \in {<<>>, <<"\n", "-", "-", "-", "\n">>}}

\* Notes that hold one embed of ShortFile with a drawn parameter list, in
\* either style.
EmbedParamTokens == {<<"l", "e", "f", "t">>, <<"3", "0", "0">>, <<"4", "0", "x", "2">>, <<"9", "P", "X">>, <<" ", "8", " ">>}

BarJoined(list) == Flatten([i \in 1..Len(list) |-> <<"|">> \o list[i]])

ParamDocs ==
    UNION {{<<"!", "[", "[", "p">> \o BarJoined(list) \o <<"]", "]">>,
            <<"!", "[", "c">> \o BarJoined(list) \o <<"]", "(", "p", ")">>} :
           list \in SeqsUpTo(EmbedParamTokens, MaxParams)}

\* Notes that hold one markdown-style embed of ShortFile with a title after
\* the destination, in the bare and in the angle-bracket form.
TitleDocs ==
    { <<"!", "[", "c", "|", "5", "]", "(", "p", " ", "\"", "t", "\"", ")">>, <<"!", "[", "c", "|", "5", "|", "l", "]", "(", "p", "#", "h", " ", "\"", "t", "\"", ")">>, <<"!", "[", "c", "]", "(", "<", "p", "#", "h", ">", " ", "'", "t", "'", ")">>,
      <<"!", "[", "|", "5", "]", "(", "p", " ", "\"", "a", "|", "b", "\"", ")">>, <<"!", "[", "c", "|", "5", "]", "(", " ", "p", "\t", "\"", "t", "\"", " ", ")">>, <<"!", "[", "c", "|", "5", "]", "(", "<", "p", ">", "x", ")">> }

ExternalUrl == <<"h", ":", "u">>

InitDoc ==
    /\ \/ data \in PieceDocs /\ imageFile \in {ShortFile, OtherFile}
       \/ data \in FrontDocs \cup ParamDocs \cup TitleDocs /\ imageFile = ShortFile
       \/ data \in ScenarioDocs /\ imageFile \in {PhotoFile, SpacedFile, OddFile, NoteFile}
    /\ prevData = data
    /\ imageUrl = ExternalUrl
    /\ lastOp = NoOp
    /\ steps = 0
    /\ TokenIdle /\ ParamsIdle /\ ScanIdle /\ CallIdle /\ WheelIdle /\ LinkIdle

\* The number of remove-width operations in a row on one note.
MaxRemoves == 4

\* updateImageLinks(activeFile, imageFile, transform): nothing is written
\* when the note is the image itself.  One operation on a note, or
\* remove-width again for as long as the last one changed the note.
UpdateImageLinks(t) ==
    /\ IF steps = 0 THEN TRUE
       ELSE /\ t.name = "remove" /\ lastOp.name = "remove"
            /\ steps < MaxRemoves
            /\ data # prevData
    /\ prevData' = data
    /\ data' = IF ActiveFile.path = imageFile.path THEN data
               ELSE UpdateImageLinksCallback(data, imageFile, t)
    /\ lastOp' = t
    /\ steps' = steps + 1
    /\ UNCHANGED <<imageFile, imageUrl, tokenVars, paramVars, scanVars, callVars, wheelVars, linkVars>>

\* ImageService.updateImageLinkWidth(imageFile, newWidth)
UpdateImageLinkWidth == \E w \in Widths : UpdateImageLinks([width |-> w, name |-> "set"])

\* ImageService.removeImageWidth(imageFile)
RemoveImageWidth == UpdateImageLinks([width |-> 0, name |-> "remove"])

\* ImageService.updateExternalImageLinkWidth(activeFile, imageUrl, newWidth)
UpdateExternalImageLinkWidth ==
    \E w \in Widths :
        /\ steps = 0
        /\ prevData' = data
        /\ data' = UpdateExternalImageLinksCallback(data, imageUrl, [width |-> w, name |-> "set"])
        /\ lastOp' = [width |-> w, name |-> "setExternal"]
        /\ steps' = steps + 1
        /\ UNCHANGED <<imageFile, imageUrl, tokenVars, paramVars, scanVars, callVars, wheelVars, linkVars>>

\* LinkService.removeImageLinks(imageFile)
RemoveImageLinks ==
    /\ steps = 0
    /\ prevData' = data
    /\ data' = IF ActiveFile.path = imageFile.path THEN data
               ELSE RemoveImageLinksCallback(data, imageFile)
    /\ lastOp' = [width |-> 0, name |-> "removeLinks"]
    /\ steps' = steps + 1
    /\ UNCHANGED <<imageFile, imageUrl, tokenVars, paramVars, scanVars, callVars, wheelVars, linkVars>>

\* The default customResizeSizes, and intrinsic widths of image files.
ResizePercentages == {25, 50, 100}
IntrinsicWidths == {1, 2, 300}

\* Math.round((width * size) / 100)
PercentageWidth(width, size) == RoundDiv(width * size, 100)

\* ImageService.resizeImage(img, size) with a percentage: width is what
\* readImageDimensions reports for the image file.
ResizeImage ==
    \E size \in ResizePercentages, width \in IntrinsicWidths :
        /\ steps = 0
        /\ prevData' = data
        /\ data' = IF ActiveFile.path = imageFile.path THEN data
                   ELSE UpdateImageLinksCallback(data, imageFile,
                            [width |-> PercentageWidth(width, size), name |-> "set"])
        /\ lastOp' = [width |-> PercentageWidth(width, size), name |-> "resize"]
        /\ steps' = steps + 1
        /\ UNCHANGED <<imageFile, imageUrl, tokenVars, paramVars, scanVars, callVars, wheelVars, linkVars>>

NextDoc ==
    \/ UpdateImageLinkWidth
    \/ RemoveImageWidth
    \/ UpdateExternalImageLinkWidth
    \/ RemoveImageLinks
    \/ ResizeImage

SpecDoc == InitDoc /\ [][NextDoc]_vars

(***************************************************************************)
(* SpecCall: one call of a LinkService operation on a drawn note, with the *)
(* outcome of vault.process drawn too: how the promise settles, whether    *)
(* the vault was asked, and what the callback returned.                    *)
(***************************************************************************)
\* Where the host's vault.process fails: nowhere, reading the note before
\* the callback, or writing the callback's result.
VaultFaults == {"none", "read", "write"}

\* The transforms handed to updateImageLinks.
CallTransforms ==
    {[width |-> w, name |-> "set"] : w \in Widths}
    \cup {[width |-> 0, name |-> "remove"], ThrowingTransform}

InitCall ==
    /\ \/ data \in PieceDocs /\ imageFile \in {ShortFile, OtherFile, NoteFile}
       \/ data \in FrontDocs /\ imageFile = ShortFile
       \/ data \in ScenarioDocs /\ imageFile \in {PhotoFile, NoteFile}
    /\ prevData = data
    /\ imageUrl = ExternalUrl
    /\ lastOp = NoOp
    /\ steps = 0
    /\ TokenIdle /\ ParamsIdle /\ ScanIdle /\ CallIdle /\ WheelIdle /\ LinkIdle

\* The state after a call that settled as o.
Settled(o, op) ==
    /\ steps = 0
    /\ prevData' = data
    /\ data' = o.data
    /\ callResult' = o.result
    /\ processCalls' = o.processCalls
    /\ returned' = o.returned
    /\ vaultFault' = o.cause
    /\ lastOp' = op
    /\ steps' = steps + 1
    /\ UNCHANGED <<imageFile, imageUrl, tokenVars, paramVars, scanVars, wheelVars, linkVars>>

\* await linkService.updateImageLinks(activeFile, imageFile, transform)
CallUpdateImageLinks ==
    \E t \in CallTransforms, fault \in VaultFaults :
        Settled(updateImageLinks(data, ActiveFile, imageFile, t, fault), t)

\* await linkService.updateExternalImageLinks(activeFile, imageUrl, transform)
CallUpdateExternalImageLinks ==
    \E t \in CallTransforms, fault \in VaultFaults :
        Settled(updateExternalImageLinks(data, imageUrl, t, fault),
                [width |-> t.width, name |-> IF t.name = "throw" THEN "throwExternal" ELSE "setExternal"])

\* await linkService.removeImageLinks(imageFile)
CallRemoveImageLinks ==
    \E fault \in VaultFaults :
        Settled(removeImageLinks(data, ActiveFile, imageFile, fault),
                [width |-> 0, name |-> "removeLinks"])

NextCall ==
    \/ CallUpdateImageLinks
    \/ CallUpdateExternalImageLinks
    \/ CallRemoveImageLinks

SpecCall == InitCall /\ [][NextCall]_vars

(***************************************************************************)
(* SpecWheel: the EventService of a note that shows a vault image or an    *)
(* external image.  Each action is one turn of the event loop: a handler,  *)
(* a timer callback or the settling of an awaited call, with the promise   *)
(* reactions that run before the next turn.                                *)
(***************************************************************************)
\* The wheel, key, blur and re-registration events of one run.
MaxInputs == 2
MaxWriteTasks == 3
MaxNoteLen == 14

\* The notes the wheel acts on, and what an external edit appends to one.
WheelDocs ==
    { <<"!", "[", "[", "p", "|", "2", "]", "]">>, <<"!", "[", "e", "]", "(", "h", ":", "u", ")">> }
EditPieces == { <<"!", "[", "p", "]", "(", ")">> }

\* The keys of the images the note shows: wheelHandler acts on the img
\* element under the pointer (findImageElement) and the note that holds it.
ShownKeys(text) ==
    {cacheKey \in Keys :
        IF cacheKey = LocalKey THEN TransformCalled(text, ShortFile)
        ELSE ExternalTransformCalled(text, ExternalUrl)}

\* evt.deltaY of the wheel events, and what the DOM image shows: its
\* naturalWidth (0 before it has loaded) and the width in its alt text (0
\* when it has none).
DeltaYs == {-10, 10}
DomImages == {[naturalWidth |-> 0, altWidth |-> 0], [naturalWidth |-> 4, altWidth |-> 0],
              [naturalWidth |-> 4, altWidth |-> 1]}
\* What readImageDimensions resolves to (0: it rejects).
ImageWidths == {0, 4}

InitWheel ==
    /\ data \in WheelDocs
    /\ prevData = data
    /\ imageFile = ShortFile
    /\ imageUrl = ExternalUrl
    /\ lastOp = NoOp
    /\ steps = 0
    /\ isModifierKeyHeld = FALSE /\ listening = FALSE /\ unloaded = FALSE
    /\ wheelWidthCache = NoEntries /\ wheelPendingWidth = NoEntries
    /\ wheelDebounceTimers = NoEntries /\ wheelMaxWaitTimers = NoEntries
    /\ wheelTargets = NoTargets /\ wheelWriteQueue = NoEntries
    /\ wheelComputes = NoComputes /\ writeTasks = <<>> /\ timerSeq = 0
    /\ wheelWrites = <<>> /\ atTeardown = NoTeardown /\ lastEvent = NoEvent
    /\ TokenIdle /\ ParamsIdle /\ ScanIdle /\ CallIdle /\ LinkIdle

\* The service after a handler, within the bound on writeTasks.
SetService(s) ==
    /\ Len(s.writeTasks) <= MaxWriteTasks
    /\ isModifierKeyHeld' = s.isModifierKeyHeld
    /\ listening' = s.listening
    /\ wheelWidthCache' = s.wheelWidthCache
    /\ wheelPendingWidth' = s.wheelPendingWidth
    /\ wheelDebounceTimers' = s.wheelDebounceTimers
    /\ wheelMaxWaitTimers' = s.wheelMaxWaitTimers
    /\ wheelTargets' = s.wheelTargets
    /\ wheelWriteQueue' = s.wheelWriteQueue
    /\ wheelComputes' = s.wheelComputes
    /\ writeTasks' = s.writeTasks
    /\ timerSeq' = s.timerSeq

wheelFrame == <<imageFile, imageUrl, tokenVars, paramVars, scanVars, callVars, linkVars>>

\* A handler that touches neither the note nor the write log.
Handled(s, name, key) ==
    /\ SetService(s)
    /\ lastEvent' = [name |-> name, key |-> key]
    /\ UNCHANGED <<data, prevData, lastOp, wheelWrites, wheelFrame>>

\* registerWheelEvents(window), at load and on layout-change
RegisterWheelEvents ==
    /\ ~unloaded
    /\ listening => steps < MaxInputs
    /\ Handled(runWriteTasks(
                    [(IF listening THEN flushAllPendingWheelWrites(Service) ELSE Service)
                        EXCEPT !.listening = TRUE]),
               IF listening THEN "reregister" ELSE "register", "none")
    /\ steps' = IF listening THEN steps + 1 ELSE steps
    /\ UNCHANGED <<unloaded, atTeardown>>

\* keydownHandler with the configured modifier key
KeyDown ==
    /\ listening
    /\ steps < MaxInputs
    /\ Handled([Service EXCEPT !.isModifierKeyHeld = TRUE], "keydown", "none")
    /\ steps' = steps + 1
    /\ UNCHANGED <<unloaded, atTeardown>>

\* keyupHandler with the configured modifier key
KeyUp ==
    /\ listening
    /\ steps < MaxInputs
    /\ Handled(runWriteTasks(
                    flushAllPendingWheelWrites([Service EXCEPT !.isModifierKeyHeld = FALSE])),
               "keyup", "none")
    /\ steps' = steps + 1
    /\ UNCHANGED <<unloaded, atTeardown>>

\* blurHandler
Blur ==
    /\ listening
    /\ steps < MaxInputs
    /\ Handled(runWriteTasks(
                    flushAllPendingWheelWrites([Service EXCEPT !.isModifierKeyHeld = FALSE])),
               "blur", "none")
    /\ steps' = steps + 1
    /\ UNCHANGED <<unloaded, atTeardown>>

\* wheelHandler for an event without the modifier while the flag is set
WheelWithoutModifier ==
    /\ listening /\ isModifierKeyHeld
    /\ steps < MaxInputs
    /\ Handled(runWriteTasks(
                    flushAllPendingWheelWrites([Service EXCEPT !.isModifierKeyHeld = FALSE])),
               "wheelReleased", "none")
    /\ steps' = steps + 1
    /\ UNCHANGED <<unloaded, atTeardown>>

\* getCurrentImageWidth / getCurrentExternalImageWidth of the image of a key
TextWidth(cacheKey) ==
    IF cacheKey = LocalKey THEN findCurrentImageWidthInText(ShortFile, data)
    ELSE findCurrentExternalImageWidthInText(ExternalUrl, data)

\* wheelHandler for an event with the modifier over an image of the note:
\* handleImageWheel chains its computation behind the key's earlier ones.
WheelOnImage ==
    \E cacheKey \in Keys, deltaY \in DeltaYs, img \in DomImages :
        /\ listening
        /\ steps < MaxInputs
        /\ cacheKey \in ShownKeys(data)
        /\ Bind(runComputes(
                    [Service EXCEPT !.isModifierKeyHeld = TRUE,
                                    !.wheelComputes[cacheKey] =
                                        Append(@, [deltaY |-> deltaY, reading |-> FALSE])],
                    cacheKey, img.naturalWidth, img.altWidth, TextWidth(cacheKey)), LAMBDA s :
                Handled(s, IF s.timerSeq > timerSeq THEN "resized" ELSE "wheel", cacheKey))
        /\ steps' = steps + 1
        /\ UNCHANGED <<unloaded, atTeardown>>

\* readImageDimensions settles for the computation that awaits it.
ReadImageDimensionsSettles ==
    \E cacheKey \in Keys, imageWidth \in ImageWidths, img \in DomImages :
        /\ wheelComputes[cacheKey] # <<>>
        /\ Head(wheelComputes[cacheKey]).reading
        /\ Bind(readImageDimensionsSettled(Service, cacheKey, imageWidth, img.naturalWidth,
                                            img.altWidth, TextWidth(cacheKey)), LAMBDA s :
                Handled(s, IF s.timerSeq > timerSeq THEN "resized" ELSE "notResized", cacheKey))
        /\ UNCHANGED <<steps, unloaded, atTeardown>>

\* The debounce timer of a key fires.
DebounceFires ==
    \E cacheKey \in Keys :
        /\ wheelDebounceTimers[cacheKey] # 0
        /\ Handled(runWriteTasks(flushWheelPendingWidth(
                        [Service EXCEPT !.wheelDebounceTimers[cacheKey] = 0], cacheKey)),
                   "debounce", cacheKey)
        /\ UNCHANGED <<steps, unloaded, atTeardown>>

\* The max-wait timer of a key fires.
MaxWaitFires ==
    \E cacheKey \in Keys :
        /\ wheelMaxWaitTimers[cacheKey] # 0
        /\ Handled(runWriteTasks(flushWheelPendingWidth(
                        [Service EXCEPT !.wheelMaxWaitTimers[cacheKey] = 0], cacheKey)),
                   "maxWait", cacheKey)
        /\ UNCHANGED <<steps, unloaded, atTeardown>>

\* The call of update...ImageLinkWidth of a writeTask settles: vault.process
\* has run the callback on the note as it is now, or failed.
SettleWrite ==
    \E task \in 1..Len(writeTasks), fault \in VaultFaults :
        /\ writeTasks[task].state = "writing"
        /\ Bind([width |-> writeTasks[task].pendingWidth, name |-> "set"], LAMBDA t :
           Bind(IF writeTasks[task].key = LocalKey
                THEN updateImageLinks(data, ActiveFile, ShortFile, t, fault)
                ELSE updateExternalImageLinks(data, ExternalUrl, t, fault), LAMBDA o :
                /\ SetService(runWriteTasks(
                        writeTaskSettle(Service, task, o.result \notin {"true", "false"})))
                /\ data' = o.data
                /\ prevData' = data
                /\ lastOp' = t
                /\ wheelWrites' = Append(wheelWrites,
                        [task |-> task,
                         key |-> writeTasks[task].key,
                         width |-> writeTasks[task].pendingWidth,
                         failed |-> o.result \notin {"true", "false"},
                         inputs |-> steps,
                         tasks |-> Len(writeTasks)])
                /\ lastEvent' = [name |-> IF o.result \in {"true", "false"}
                                          THEN "written" ELSE "failed",
                                 key |-> writeTasks[task].key]))
        /\ UNCHANGED <<steps, unloaded, atTeardown, wheelFrame>>

\* onunload: EventService.cleanup()
Cleanup ==
    /\ listening /\ ~unloaded
    /\ Bind(runWriteTasks(cleanup(Service)), LAMBDA s :
            /\ Handled(s, "cleanup", "none")
            /\ atTeardown' = [pending |-> wheelPendingWidth,
                              unsettled |-> {task \in 1..Len(s.writeTasks) :
                                                s.writeTasks[task].state # "done"},
                              writes |-> Len(wheelWrites)])
    /\ unloaded' = TRUE
    /\ UNCHANGED steps

\* Somebody else changes the note: the user types, a sync client writes.
ExternalEdit ==
    \E piece \in EditPieces :
        /\ Len(data) + Len(piece) <= MaxNoteLen
        /\ data' = data \o piece
        /\ prevData' = data
        /\ lastEvent' = [name |-> "edit", key |-> "none"]
        /\ UNCHANGED <<lastOp, steps, wheelVarsButEvent, wheelFrame>>

NextWheel ==
    \/ RegisterWheelEvents
    \/ KeyDown
    \/ KeyUp
    \/ Blur
    \/ WheelWithoutModifier
    \/ WheelOnImage
    \/ ReadImageDimensionsSettles
    \/ DebounceFires
    \/ MaxWaitFires
    \/ SettleWrite
    \/ Cleanup
    \/ ExternalEdit

SpecWheel == InitWheel /\ [][NextWheel]_vars

(***************************************************************************)
(* SpecWheelLive: SpecWheel with the scheduling of the host.  An armed     *)
(* timer fires unless it is cleared first, and of the writes of a key that *)
(* keep being started one succeeds in the end.  Each step is named by what *)
(* it leaves in lastEvent, the timer maps and the write log.               *)
(***************************************************************************)
\* The debounce timer of the key fires (DebounceFires for this key).
DebounceTurn(cacheKey) ==
    /\ wheelDebounceTimers[cacheKey] # 0
    /\ wheelTargets[cacheKey] => Len(writeTasks) < MaxWriteTasks
    /\ lastEvent' = [name |-> "debounce", key |-> cacheKey]
    /\ wheelDebounceTimers' = [wheelDebounceTimers EXCEPT ![cacheKey] = 0]

\* The max-wait timer of the key fires (MaxWaitFires for this key).
MaxWaitTurn(cacheKey) ==
    /\ wheelMaxWaitTimers[cacheKey] # 0
    /\ wheelTargets[cacheKey] => Len(writeTasks) < MaxWriteTasks
    /\ lastEvent' = [name |-> "maxWait", key |-> cacheKey]
    /\ wheelMaxWaitTimers' = [wheelMaxWaitTimers EXCEPT ![cacheKey] = 0]

\* A write of the key in flight succeeds (SettleWrite with no fault).
WriteSucceedsTurn(cacheKey) ==
    \E task \in 1..Len(writeTasks) :
        /\ writeTasks[task].state = "writing"
        /\ writeTasks[task].key = cacheKey
        /\ lastEvent' = [name |-> "written", key |-> cacheKey]
        /\ wheelWrites' = Append(wheelWrites,
                [task |-> task,
                 key |-> cacheKey,
                 width |-> writeTasks[task].pendingWidth,
                 failed |-> FALSE,
                 inputs |-> steps,
                 tasks |-> Len(writeTasks)])

SpecWheelLive ==
    /\ SpecWheel
    /\ \A cacheKey \in Keys :
            /\ WF_<<lastEvent, wheelDebounceTimers>>(DebounceTurn(cacheKey))
            /\ WF_<<lastEvent, wheelMaxWaitTimers>>(MaxWaitTurn(cacheKey))
            /\ SF_<<wheelWrites>>(WriteSucceedsTurn(cacheKey))

(***************************************************************************)
(* SpecLink: parseLinkComponents on the interior of a wiki-style embed     *)
(* and on the caption and destination of a markdown-style embed.           *)
(***************************************************************************)
MaxLinkLen == 5
MaxDestLen == 5

LinkAlphabet == {"p", "#", "|", "3", "x", " "}
DestAlphabet == {"p", "#", "%", "2", "3"}

\* Interiors and destinations longer than the bounds.
LinkExamples ==
    { <<"p", "|", "l", "e", "f", "t", "|", "3", "0", "x", "2", "0", "p", "x", "#", "h">>, <<"p", "#", "a", "|", "3", "#", "b">>, <<"p", "|", "3", "#", "h", "|", "l">>, <<"p", "|", " ", "3", "#", "h">>, <<"p", "|", "3", "X", "4", "P", "X", "#", "h", "#", "i">>,
      <<"d", "/", "p", "|", "0", "3", "#", "h">>, <<"p", "|", "3", " ", "#", "h">> }
DestExamples == { <<"d", "/", "p", "#", "a", "#", "b">>, <<"%", "6", "4", "/", "p", "#", "h", "%", "2", "3">>, <<"a", "%", "2", "3", "b", "#", "h">> }
Captions == { <<>>, <<"c">>, <<"c", "|", "5">>, <<"c", "|", "l", "|", "5", "#", "h">> }

InitLink ==
    /\ \/ /\ linkDest = <<>>
          /\ linkMain \in SeqsUpTo(LinkAlphabet, MaxLinkLen) \cup LinkExamples
       \/ /\ linkDest \in (SeqsUpTo(DestAlphabet, MaxDestLen) \cup DestExamples) \ {<<>>}
          /\ linkMain \in Captions
    /\ linkParts = NoLink
    /\ lastOp = NoOp
    /\ steps = 0
    /\ TokenIdle /\ ParamsIdle /\ DocIdle /\ ScanIdle /\ CallIdle /\ WheelIdle

\* One call of parseLinkComponents(mainPart, linkPath).
ParseLink ==
    /\ lastOp.name = "none"
    /\ linkParts' = parseLinkComponents(linkMain, linkDest)
    /\ lastOp' = [width |-> 0, name |-> "parseLink"]
    /\ steps' = steps + 1
    /\ UNCHANGED <<linkMain, linkDest, tokenVars, paramVars, docVars, scanVars, callVars,
                   wheelVars>>

NextLink == ParseLink

SpecLink == InitLink /\ [][NextLink]_vars

(***************************************************************************)
(* SpecScan: scanMarkdownImageLinks step by step.  The text is drawn in    *)
(* Init; each action is one pass through the body of the outer loop        *)
(* while (index < length), or the exit from it.                            *)
(***************************************************************************)
MaxScanPieces == 3

\* Fragments of text: markdown-style embeds, well-formed and not.
ScanPieces ==
    { <<"!", "[", "a", "]", "(">>, <<"!", "[", "a", "]", "(", "(">>, <<"!", "[", "b", "]", " ">>, <<"!", "[", "c", "]", "(", "p", ")">>, <<"!", "[", "e", "|", "5", "]", "(", "q", "\\", ")", ")", " ">>, <<"a">>, <<"!", "[">>,
      <<"!", "[", "d", "]", "(", "\\">>, <<"!", "[", "\\">> }

ScanDocs == {Flatten(list) : list \in SeqsUpTo(ScanPieces, MaxScanPieces)}

InitScan ==
    /\ data \in ScanDocs
    /\ prevData = data
    /\ imageFile = NullFile
    /\ imageUrl = <<>>
    /\ scanState = "scanning"
    /\ scanIndex = 0
    /\ scanMatches = <<>>
    /\ lastOp = NoOp
    /\ steps = 0
    /\ TokenIdle /\ ParamsIdle /\ CallIdle /\ WheelIdle /\ LinkIdle

Scanning == scanState = "scanning" /\ scanIndex < Len(data)

\* while (index < length) is false: the loop ends.
ScanEndOfText ==
    /\ scanState = "scanning"
    /\ scanIndex >= Len(data)
    /\ scanState' = "done"
    /\ UNCHANGED <<scanIndex, scanMatches, docVars, lastOp, steps, tokenVars, paramVars, callVars, wheelVars, linkVars>>

\* if (start === -1) break;
ScanNoOpening ==
    /\ Scanning
    /\ ScanIteration(data, scanIndex).start = -1
    /\ scanState' = "done"
    /\ UNCHANGED <<scanIndex, scanMatches, docVars, lastOp, steps, tokenVars, paramVars, callVars, wheelVars, linkVars>>

\* The alt text does not close, or no ( follows it: index = start + 1.
ScanSkip ==
    /\ Scanning
    /\ ScanIteration(data, scanIndex).kind = "skip"
    /\ scanIndex' = ScanIteration(data, scanIndex).next
    /\ UNCHANGED <<scanState, scanMatches, docVars, lastOp, steps, tokenVars, paramVars, callVars, wheelVars, linkVars>>

\* if (destEndParen === -1) break;
ScanUnclosedDestination ==
    /\ Scanning
    /\ ScanIteration(data, scanIndex).kind = "stop"
    /\ ScanIteration(data, scanIndex).start # -1
    /\ scanState' = "done"
    /\ UNCHANGED <<scanIndex, scanMatches, docVars, lastOp, steps, tokenVars, paramVars, callVars, wheelVars, linkVars>>

\* onMatch(...); index = destEndParen + 1;
ScanMatch ==
    /\ Scanning
    /\ ScanIteration(data, scanIndex).kind = "match"
    /\ scanMatches' = Append(scanMatches, ScanIteration(data, scanIndex).match)
    /\ scanIndex' = ScanIteration(data, scanIndex).next
    /\ UNCHANGED <<scanState, docVars, lastOp, steps, tokenVars, paramVars, callVars, wheelVars, linkVars>>

NextScan ==
    \/ ScanEndOfText
    \/ ScanNoOpening
    \/ ScanSkip
    \/ ScanUnclosedDestination
    \/ ScanMatch

SpecScan == InitScan /\ [][NextScan]_vars

(***************************************************************************)
(* The size-token grammar stated on its own, as a decomposition of the     *)
(* token: <numeral> [ <sep> <numeral> ] [ <unit> ].                        *)
(***************************************************************************)
IsNumeral(s) ==
    /\ s # <<>>
    /\ s[1] \in NonZeroDigits
    /\ \A i \in 1..Len(s) : s[i] \in Digits

\* The value of a numeral, most significant digit first.
RECURSIVE NumeralValueAcc(_, _)
NumeralValueAcc(s, acc) ==
    IF s = <<>> THEN acc
    ELSE NumeralValueAcc(Tail(s), 10 * acc + DigitValue(Head(s)))

NumeralValue(s) == NumeralValueAcc(s, 0)

UnitSuffixes == {<<>>, <<"p", "x">>, <<"P", "X">>, <<"p", "X">>, <<"P", "x">>}

\* The readings of t as a size token whose width/height separator is one of
\* seps: records [width, hasHeight, height].
SizeReadings(t, seps) ==
    {[width |-> NumeralValue(SubSeq(t, 1, i)), hasHeight |-> FALSE, height |-> 0] :
        i \in {i \in 1..Len(t) :
                 /\ IsNumeral(SubSeq(t, 1, i))
                 /\ SubSeq(t, i + 1, Len(t)) \in UnitSuffixes}}
    \cup
    {[width |-> NumeralValue(SubSeq(t, 1, ij[1])), hasHeight |-> TRUE,
      height |-> NumeralValue(SubSeq(t, ij[1] + 2, ij[2]))] :
        ij \in {ij \in (1..Len(t)) \X (1..Len(t)) :
                 /\ ij[1] + 2 <= ij[2]
                 /\ IsNumeral(SubSeq(t, 1, ij[1]))
                 /\ t[ij[1] + 1] \in seps
                 /\ IsNumeral(SubSeq(t, ij[1] + 2, ij[2]))
                 /\ SubSeq(t, ij[2] + 1, Len(t)) \in UnitSuffixes}}

\* What parseObsidianImageSizeParam returned, as a set of readings.
ParsedReadings(p) ==
    IF ~p.ok THEN {}
    ELSE {[width |-> p.width, hasHeight |-> p.hasHeight,
           height |-> IF p.hasHeight THEN p.height ELSE 0]}

\* A token is a size token when, trimmed, it reads as one with x or X.
IsSizeToken(t) == SizeReadings(Trim(t), {"x", "X"}) # {}
SizeTokenWidth(t) == (CHOOSE r \in SizeReadings(Trim(t), {"x", "X"}) : TRUE).width

(***************************************************************************)
(* C8 (as stated): parseObsidianImageSizeParam returns a width, and the    *)
(* height of the NxM form, exactly for the tokens that match: a numeral    *)
(* without leading zero, optionally "x" and a second such numeral, and     *)
(* optionally a "px" suffix in either case.                                *)
(* Refuted: a token padded with white space, or one with an upper-case X   *)
(* separator, does not match that expression and is accepted.              *)
(***************************************************************************)
C8_GrammarAsStated ==
    lastOp.name = "parse" => ParsedReadings(parsed) = SizeReadings(token, {"x"})

(***************************************************************************)
(* C8 (amended): parseObsidianImageSizeParam returns a width, and the      *)
(* height of the NxM form, exactly for the tokens that match the grammar   *)
(* once surrounding white space is trimmed, the x separator and the px     *)
(* suffix both in either case.  It accepts "300", "300x200" and "300px",   *)
(* and returns null for "0", "-5", "300xpx", "", "abc" and every token     *)
(* with a leading zero.                                                    *)
(***************************************************************************)
C8_SizeTokenGrammar ==
    lastOp.name = "parse" =>
        /\ ParsedReadings(parsed) = SizeReadings(Trim(token), {"x", "X"})
        /\ token = <<"3", "0", "0">> => parsed = [ok |-> TRUE, width |-> 300, hasHeight |-> FALSE]
        /\ token = <<"3", "0", "0", "x", "2", "0", "0">> =>
                parsed = [ok |-> TRUE, width |-> 300, hasHeight |-> TRUE, height |-> 200]
        /\ token = <<"3", "0", "0", "p", "x">> => parsed = [ok |-> TRUE, width |-> 300, hasHeight |-> FALSE]
        /\ token \in {<<"0">>, <<"-", "5">>, <<"3", "0", "0", "x", "p", "x">>, <<>>, <<"a", "b", "c">>} => parsed = NoSize
        /\ (Trim(token) # <<>> /\ Trim(token)[1] = "0") => parsed = NoSize

\* A padded token with an upper-case separator and unit has been parsed.
C8_Witness ==
    /\ lastOp.name = "parse"
    /\ token = <<" ", "3", "0", "0", "x", "2", "0", "0", "P", "X", " ">>
    /\ parsed = [ok |-> TRUE, width |-> 300, hasHeight |-> TRUE, height |-> 200]

(***************************************************************************)
(* C9: findLastObsidianImageSizeParam returns the greatest index whose     *)
(* token is a size token, with that token's width, and null when no token  *)
(* is a size token; for ["left", "300", "400"] it returns index 2 and      *)
(* width 400.                                                              *)
(***************************************************************************)
SizeIndexes(ps) == {i \in 0..(Len(ps) - 1) : IsSizeToken(ps[i + 1])}

MaxOf(S) == CHOOSE m \in S : \A n \in S : n <= m

C9_LastWins ==
    lastOp.name = "find" =>
        /\ SizeIndexes(params) = {} => ~foundParam.found
        /\ SizeIndexes(params) # {} =>
            /\ foundParam.found
            /\ foundParam.index = MaxOf(SizeIndexes(params))
            /\ foundParam.width = SizeTokenWidth(params[MaxOf(SizeIndexes(params)) + 1])
        /\ params = <<<<"l", "e", "f", "t">>, <<"3", "0", "0">>, <<"4", "0", "0">>>> =>
            foundParam.found /\ foundParam.index = 2 /\ foundParam.width = 400

C9_Witness ==
    /\ lastOp.name = "find"
    /\ params = <<<<"l", "e", "f", "t">>, <<"3", "0", "0">>, <<"4", "0", "0">>>>
    /\ foundParam.found
    /\ foundParam.index = 2

(***************************************************************************)
(* The set-width relation on parameter lists: after is before with only    *)
(* its last size token replaced by the decimal string of w when before     *)
(* holds a size token, and before with w appended as a new last element    *)
(* otherwise; every other parameter keeps its value and position.          *)
(***************************************************************************)
\* s is the decimal string of n: a numeral (or "0") whose value is n.
IsDecimalStringOf(s, n) ==
    /\ s # <<>>
    /\ \A i \in 1..Len(s) : s[i] \in Digits
    /\ Len(s) > 1 => s[1] # "0"
    /\ NumeralValue(s) = n

SetWidthPost(before, after, w) ==
    IF SizeIndexes(before) # {}
    THEN LET k == MaxOf(SizeIndexes(before)) + 1
         IN  /\ Len(after) = Len(before)
             /\ IsDecimalStringOf(after[k], w)
             /\ \A i \in 1..Len(before) : i # k => after[i] = before[i]
    ELSE /\ Len(after) = Len(before) + 1
         /\ IsDecimalStringOf(after[Len(after)], w)
         /\ SubSeq(after, 1, Len(before)) = before

\* The parameters written as |a|b, as a list; no text is no parameter.
BarList(s) == IF s = <<>> THEN <<>> ELSE Split(Tail(s), "|")

\* text is head, then some |parameters, then tail: the |parameters.
Between(text, head, tail) == Substring(text, Len(head), Len(text) - Len(tail))

Encloses(text, head, tail) ==
    /\ Len(text) >= Len(head) + Len(tail)
    /\ Substring(text, 0, Len(head)) = head
    /\ Substring(text, Len(text) - Len(tail), Len(text)) = tail
    /\ Between(text, head, tail) # <<>> => Head(Between(text, head, tail)) = "|"

(***************************************************************************)
(* C5: set-width semantics.  A set-width rewrite of a note that holds one  *)
(* embed of the image, in either style, with any parameter list P, writes  *)
(* the embed back with P changed by the set-width relation for the width   *)
(* w: only the last size token replaced by the decimal string of w (its    *)
(* height and px suffix dropped), or w appended when P holds no size       *)
(* token.  ![[photo.jpg]] with 300 becomes ![[photo.jpg|300]] and          *)
(* ![caption|50](photo.jpg) with 200 becomes ![caption|200](photo.jpg).    *)
(***************************************************************************)
C5_SetWidth ==
    lastOp.name = "set" =>
        /\ \A style \in {<<<<"!", "[", "[", "p">>, <<"]", "]">>>>, <<<<"!", "[", "c">>, <<"]", "(", "p", ")">>>>} :
              (imageFile = ShortFile /\ prevData \in ParamDocs
                    /\ Encloses(prevData, style[1], style[2])) =>
                  /\ Encloses(data, style[1], style[2])
                  /\ SetWidthPost(BarList(Between(prevData, style[1], style[2])),
                                  BarList(Between(data, style[1], style[2])), lastOp.width)
        /\ (imageFile = PhotoFile /\ lastOp.width = 300 /\ prevData = <<"!", "[", "[", "p", "h", "o", "t", "o", ".", "j", "p", "g", "]", "]">>)
                => data = <<"!", "[", "[", "p", "h", "o", "t", "o", ".", "j", "p", "g", "|", "3", "0", "0", "]", "]">>
        /\ (imageFile = PhotoFile /\ lastOp.width = 200 /\ prevData = <<"!", "[", "c", "a", "p", "t", "i", "o", "n", "|", "5", "0", "]", "(", "p", "h", "o", "t", "o", ".", "j", "p", "g", ")">>)
                => data = <<"!", "[", "c", "a", "p", "t", "i", "o", "n", "|", "2", "0", "0", "]", "(", "p", "h", "o", "t", "o", ".", "j", "p", "g", ")">>

\* A set-width rewrite has replaced the last of two size tokens of a
\* markdown-style embed, the one with a height and a unit.
C5_Witness ==
    /\ lastOp.name = "set" /\ lastOp.width = 200
    /\ imageFile = ShortFile
    /\ prevData = <<"!", "[", "c", "|", "3", "0", "0", "|", "l", "e", "f", "t", "|", "4", "0", "x", "2", "]", "(", "p", ")">>
    /\ data = <<"!", "[", "c", "|", "3", "0", "0", "|", "l", "e", "f", "t", "|", "2", "0", "0", "]", "(", "p", ")">>

(***************************************************************************)
(* C3 (as stated): applying the remove-width transform twice in a row      *)
(* yields the same result as applying it once, for every parameter list.   *)
(* Refuted by a list with two size tokens: each call removes one.          *)
(***************************************************************************)
C3_RemoveTwiceAsStated ==
    [][(lastOp.name = "remove" /\ lastOp'.name = "remove") => params' = params]_vars

(***************************************************************************)
(* C3 (amended): every application of the remove-width transform deletes   *)
(* exactly the last size token of the list and nothing else (the list is   *)
(* returned unchanged when it holds none); so applying it twice yields the *)
(* same result as once exactly when the list holds at most one size token. *)
(***************************************************************************)
RemoveWidthPost(before, after) ==
    IF SizeIndexes(before) = {} THEN after = before
    ELSE LET k == MaxOf(SizeIndexes(before)) + 1
         IN  after = SubSeq(before, 1, k - 1) \o SubSeq(before, k + 1, Len(before))

C3_RemoveWidth ==
    lastOp.name = "remove" =>
        /\ RemoveWidthPost(oldParams, params)
        /\ (RemoveWidthTransform(params) = params) <=> (Cardinality(SizeIndexes(oldParams)) <= 1)

\* A second remove-width in a row has removed a second size token.
C3_Witness ==
    /\ lastOp.name = "remove"
    /\ steps = 2
    /\ oldParams = <<<<"3", "0", "0">>>>
    /\ params = <<>>

(***************************************************************************)
(* Reading a note for the claims about the rewriting operations: its       *)
(* embeds, and the link target each embed names.                           *)
(***************************************************************************)
\* The text before the first of the characters in stops.
PrefixBefore(s, stops) ==
    LET hits == {i \in 1..Len(s) : s[i] \in stops}
    IN  IF hits = {} THEN s ELSE SubSeq(s, 1, Least(hits) - 1)

ElementsOf(list) == {list[i] : i \in 1..Len(list)}

\* The embeds of a text: the wiki-style and the markdown-style occurrences,
\* each with the link target it names.  A wiki-style embed names the text
\* before its first | or #; a markdown-style embed names its destination,
\* decoded, before the first #.
EmbedsOf(text) ==
    {[style |-> "wiki", start |-> m.start, end |-> m.end,
      target |-> PrefixBefore(m.linkInner, {"|", "#"})] : m \in ElementsOf(WikiMatches(text))}
    \cup
    {[style |-> "markdown", start |-> m.start, end |-> m.end,
      target |-> safeDecodeURIComponent(PrefixBefore(m.linkPath, {"#"}))] :
        m \in ElementsOf(scanMarkdownImageLinks(text))}

\* The embeds of a text that resolve to the image.
TargetEmbeds(text, image) == {e \in EmbedsOf(text) : resolveLink(e.target, image)}

\* The part of a note the operations rewrite, and where it starts.
Body(text) == splitFrontmatter(text).content
BodyStart(text) == Len(text) - Len(Body(text))

IsLinkRewrite == lastOp.name \in {"set", "remove"}

(***************************************************************************)
(* C1: round-trip identity.  When no embed of the rewritten text, in either *)
(* style, resolves to the target image, updateLinks returns the text       *)
(* exactly, whatever malformed or partial embed syntax it contains.        *)
(* Refuted by a markdown-style embed with an empty destination whose       *)
(* caption is the image's link path: it is rewritten.                      *)
(***************************************************************************)
C1_RoundTrip ==
    (IsLinkRewrite /\ TargetEmbeds(Body(prevData), imageFile) = {}) => data = prevData

(***************************************************************************)
(* C2: surgical mutation.  In a note with exactly one embed that resolves  *)
(* to the target, a set-width rewrite changes only that occurrence's width *)
(* token: a size token of the occurrence is replaced by the decimal string *)
(* of the width, or the width is inserted behind a new |, and every other  *)
(* character of the note is byte-identical before and after.               *)
(* Refuted: the occurrence is serialised anew, which cuts a destination    *)
(* fragment at its second #, moves a wiki-style fragment and drops angle   *)
(* brackets; an embed with an empty destination is rewritten as well.      *)
(***************************************************************************)
WidthTokenEdit(occ, new, w) ==
    \E i \in 0..Len(occ), j \in 0..Len(occ) :
        /\ i <= j
        /\ Len(new) >= i + (Len(occ) - j)
        /\ Substring(new, 0, i) = Substring(occ, 0, i)
        /\ Substring(new, Len(new) - (Len(occ) - j), Len(new)) = Substring(occ, j, Len(occ))
        /\ LET put == Substring(new, i, Len(new) - (Len(occ) - j))
           IN  \/ i = j /\ put # <<>> /\ Head(put) = "|" /\ IsDecimalStringOf(Tail(put), w)
               \/ i < j /\ IsSizeToken(Substring(occ, i, j)) /\ IsDecimalStringOf(put, w)

C2_SurgicalMutation ==
    (lastOp.name = "set" /\ Cardinality(TargetEmbeds(Body(prevData), imageFile)) = 1) =>
        LET e == CHOOSE x \in TargetEmbeds(Body(prevData), imageFile) : TRUE
            s == BodyStart(prevData) + e.start
            rest == Len(prevData) - (BodyStart(prevData) + e.end)
        IN  /\ Len(data) >= s + rest
            /\ Substring(data, 0, s) = Substring(prevData, 0, s)
            /\ Substring(data, Len(data) - rest, Len(data))
                   = Substring(prevData, Len(prevData) - rest, Len(prevData))
            /\ WidthTokenEdit(Substring(prevData, s, Len(prevData) - rest),
                              Substring(data, s, Len(data) - rest), lastOp.width)

(***************************************************************************)
(* The case of C4: a link rewrite of a note whose first embed is a         *)
(* wiki-style embed of the target with a heading fragment in its first     *)
(* segment.                                                                *)
(***************************************************************************)
FirstWikiInner(text) == WikiMatches(text)[1].linkInner

FragmentFirstCase ==
    /\ IsLinkRewrite
    /\ imageFile.path # ActiveFile.path
    /\ WikiMatches(Body(prevData)) # <<>>
    /\ WikiMatches(Body(prevData))[1].start = IndexOf(Body(prevData), <<"!", "[">>, 0)
    /\ "#" \in ElementsOf(PrefixBefore(FirstWikiInner(Body(prevData)), {"|"}))
    /\ resolveLink(PrefixBefore(FirstWikiInner(Body(prevData)), {"|", "#"}), imageFile)

\* The parameter list after is what the rewrite lastOp makes of before.
ParamsRewritten(before, after) ==
    IF lastOp.name = "set" THEN SetWidthPost(before, after, lastOp.width)
    ELSE RemoveWidthPost(before, after)

\* The inner text of the first wiki-style embed of the rewritten note is
\* head, then some |parameters, then tail, the parameters being the old
\* ones rewritten.
FirstEmbedReads(head, tail) ==
    LET old == FirstWikiInner(Body(prevData))
        new == FirstWikiInner(Body(data))
        mid == Substring(new, Len(head), Len(new) - Len(tail))
    IN  /\ WikiMatches(Body(data)) # <<>>
        /\ WikiMatches(Body(data))[1].start = WikiMatches(Body(prevData))[1].start
        /\ Len(new) >= Len(head) + Len(tail)
        /\ Substring(new, 0, Len(head)) = head
        /\ Substring(new, Len(new) - Len(tail), Len(new)) = tail
        /\ mid # <<>> => Head(mid) = "|"
        /\ ParamsRewritten(BarList(Substring(old, Len(PrefixBefore(old, {"|"})), Len(old))),
                           BarList(mid))

OnlyMarkdownEmbed(text) == scanMarkdownImageLinks(text)[1]

\* The decoded path a markdown-style embed names.
DecodedPathOf(m) == safeDecodeURIComponent(PrefixBefore(m.linkPath, {"#"}))

MarkdownTargetCase ==
    /\ IsLinkRewrite
    /\ imageFile.path # ActiveFile.path
    /\ WikiMatches(Body(prevData)) = <<>>
    /\ Len(scanMarkdownImageLinks(Body(prevData))) = 1
    /\ OnlyMarkdownEmbed(Body(prevData)).linkPath # <<>>
    /\ resolveLink(DecodedPathOf(OnlyMarkdownEmbed(Body(prevData))), imageFile)

\* The percent-encoding of one character of a path: / and the letters,
\* digits and - _ . ~ are kept; the other characters of the model's paths
\* are written by their code.
PathCharEncoded(c) ==
    CASE c = " " -> <<"%", "2", "0">>
      [] c = "!" -> <<"%", "2", "1">>
      [] c = "&" -> <<"%", "2", "6">>
      [] c = "'" -> <<"%", "2", "7">>
      [] c = "(" -> <<"%", "2", "8">>
      [] c = ")" -> <<"%", "2", "9">>
      [] c = "*" -> <<"%", "2", "A">>
      [] OTHER -> <<c>>

PathEncoded(path) == Flatten([i \in 1..Len(path) |-> PathCharEncoded(path[i])])

StartsWith(text, head) == Substring(text, 0, Len(head)) = head
EndsWith(text, tail) ==
    Len(text) >= Len(tail) /\ Substring(text, Len(text) - Len(tail), Len(text)) = tail

AfterBreak(text, i) ==
    IF CharAt(text, i) = "\n" THEN i + 1
    ELSE IF CharAt(text, i) = "\r" /\ CharAt(text, i + 1) = "\n" THEN i + 2
    ELSE -1

\* A line that is exactly --- starts at offset i.
IsDashLine(text, i) ==
    /\ i = 0 \/ CharAt(text, i - 1) = "\n"
    /\ Substring(text, i, i + 3) = <<"-", "-", "-">>
    /\ i + 3 = Len(text) \/ AfterBreak(text, i + 3) # -1

OpensFrontmatter(text) == IsDashLine(text, 0) /\ AfterBreak(text, 3) # -1

ClosingLines(text) == {i \in AfterBreak(text, 3)..Len(text) : IsDashLine(text, i)}

FrontmatterBlock(text) ==
    LET i == Least(ClosingLines(text))
    IN  Substring(text, 0, IF i + 3 = Len(text) THEN i + 3 ELSE AfterBreak(text, i + 3))

\* What the operation lastOp makes of a text taken as content as a whole.
RewrittenAsContent(text) ==
    CASE lastOp.name \in {"set", "remove"} ->
            IF ActiveFile.path = imageFile.path THEN text
            ELSE updateLinks(text, imageFile, lastOp)
      [] lastOp.name = "setExternal" ->
            updateExternalLinks(text, imageUrl, [width |-> lastOp.width, name |-> "set"])
      [] lastOp.name = "removeLinks" ->
            IF ActiveFile.path = imageFile.path THEN text
            ELSE RemoveLinks(text, imageFile)

(***************************************************************************)
(* C7: frontmatter is untouched.  For a note that starts with a --- line   *)
(* and has a closing --- line, the text written by updateImageLinks,       *)
(* updateExternalImageLinks and removeImageLinks begins with exactly the   *)
(* original frontmatter block, also when the block holds what looks like   *)
(* an embed of the target; when the closing line is missing the whole text *)
(* is rewritten as content.                                                *)
(***************************************************************************)
C7_FrontmatterUntouched ==
    (lastOp.name \in {"set", "remove", "setExternal", "removeLinks"} /\ OpensFrontmatter(prevData)) =>
        IF ClosingLines(prevData) # {}
        THEN StartsWith(data, FrontmatterBlock(prevData))
        ELSE data = RewrittenAsContent(prevData)

\* A set-width rewrite has changed the embed of the body and left the same
\* embed in the frontmatter block alone.
C7_Witness ==
    /\ lastOp.name = "set" /\ lastOp.width = 75
    /\ imageFile = ShortFile
    /\ prevData = <<"-", "-", "-", "\n", "!", "[", "[", "p", "|", "5", "]", "]", "\n", "-", "-", "-", "\n", "!", "[", "[", "p", "|", "5", "|", "l", "|", "6", "#", "h", "]", "]">>
    /\ data = <<"-", "-", "-", "\n", "!", "[", "[", "p", "|", "5", "]", "]", "\n", "-", "-", "-", "\n", "!", "[", "[", "p", "|", "5", "|", "l", "|", "7", "5", "#", "h", "]", "]">>

(***************************************************************************)
(* C10: malformed syntax does not suppress later matches.  When the        *)
(* scanner finds ![ whose caption never closes, or whose destination       *)
(* parenthesis never returns to depth zero, it abandons that position and  *)
(* resumes one character later, so every well-formed markdown-style embed  *)
(* that starts after the malformed one is reported: the matches of a       *)
(* finished scan are those of a scan that resumes after every abandoned    *)
(* position.  Refuted: an unclosed destination ends the scan.              *)
(***************************************************************************)
RECURSIVE ResumingScanFrom(_, _)
ResumingScanFrom(text, index) ==
    IF index >= Len(text) \/ ScanIteration(text, index).start = -1 THEN <<>>
    ELSE IF ScanIteration(text, index).kind = "match"
    THEN <<ScanIteration(text, index).match>>
            \o ResumingScanFrom(text, ScanIteration(text, index).next)
    ELSE ResumingScanFrom(text, ScanIteration(text, index).start + 1)

C10_LaterMatchesReported ==
    scanState = "done" => scanMatches = ResumingScanFrom(data, 0)

(***************************************************************************)
(* Calls of the LinkService operations and how they settle.                *)
(***************************************************************************)
IsUpdateCall == lastOp.name \in {"set", "remove", "throw"}
IsExternalCall == lastOp.name \in {"setExternal", "throwExternal"}
IsRemoveLinksCall == lastOp.name = "removeLinks"

\* The messages of the domain-level errors.
DomainErrors ==
    {FailedToUpdateImageLink, FailedToUpdateExternalImageLink, FailedToRemoveImageLinks}

(***************************************************************************)
(* C16: self-target guard.  When the referencing document is the target    *)
(* image itself (same path), updateImageLinks and removeImageLinks resolve *)
(* to false without calling vault.process, and the document is left as it  *)
(* was.                                                                    *)
(***************************************************************************)
C16_SelfTargetGuard ==
    ((IsUpdateCall \/ IsRemoveLinksCall) /\ ActiveFile.path = imageFile.path)
        => /\ callResult = "false"
           /\ processCalls = 0
           /\ data = prevData

\* The note embeds itself with a width, a set-width call named the note as
\* the image, and nothing was asked of the vault.
C16_Witness ==
    /\ lastOp.name = "set"
    /\ imageFile = NoteFile
    /\ TargetEmbeds(Body(prevData), NoteFile) # {}
    /\ callResult = "false"
    /\ processCalls = 0

(***************************************************************************)
(* C17: no-op detection.  In a call of updateImageLinks or                 *)
(* updateExternalImageLinks whose vault.process does not fail: when the    *)
(* rewrite leaves the content as it was, the callback returns the text it  *)
(* was given, frontmatter included, and the call resolves to false instead *)
(* of throwing; and the call resolves to true exactly when the returned    *)
(* text differs from the text given.                                       *)
(***************************************************************************)
RewriteOf(content) ==
    IF IsUpdateCall THEN updateLinks(content, imageFile, lastOp)
    ELSE updateExternalLinks(content, imageUrl, [width |-> lastOp.width, name |-> "set"])

C17_NoOpDetection ==
    ((IsUpdateCall \/ IsExternalCall) /\ processCalls = 1 /\ vaultFault = "none")
        => /\ callResult \in {"true", "false"}
           /\ (callResult = "true") <=> (returned # prevData)
           /\ (lastOp.name \in {"set", "remove", "setExternal"}
                    /\ RewriteOf(Body(prevData)) = Body(prevData))
                => (returned = prevData /\ callResult = "false")

\* A note with a frontmatter block and an embed of another image: the
\* set-width call asked the vault, got the note back as it was and resolved
\* to false.
C17_Witness ==
    /\ lastOp.name = "set"
    /\ imageFile = ShortFile
    /\ processCalls = 1
    /\ vaultFault = "none"
    /\ splitFrontmatter(prevData).frontmatter # <<>>
    /\ EmbedsOf(Body(prevData)) # {}
    /\ returned = prevData
    /\ callResult = "false"

(***************************************************************************)
(* C18: error propagation.  A failure raised inside the scan/rewrite       *)
(* sequence of updateImageLinks (updateExternalImageLinks) is rethrown as  *)
(* one domain-level error, and a failure of vault.process itself, an I/O   *)
(* error, reaches the caller as that same error.                           *)
(* Refuted: the catch block encloses the await of vault.process, so an I/O *)
(* error is replaced by the domain-level error too.                        *)
(***************************************************************************)
C18_ErrorPropagation ==
    ((IsUpdateCall \/ IsExternalCall) /\ processCalls = 1)
        => /\ vaultFault = TransformError => callResult \in DomainErrors
           /\ vaultFault = IOError => callResult = IOError

(***************************************************************************)
(* Claims about EventService, under SpecWheel.                             *)
(***************************************************************************)
WriteTaskIds == 1..Len(writeTasks)
InFlight(task) == writeTasks[task].state = "writing"

(***************************************************************************)
(* C11: per-target write serialization.  For every (document, target) key  *)
(* the link-update writes issued by wheel flushes never overlap: no two    *)
(* writeTasks of one key are awaiting their update...ImageLinkWidth call   *)
(* at the same time.                                                       *)
(* Refuted: cleanup() clears wheelWriteQueue while a write is in flight;   *)
(* a wheel computation that resumes afterwards records a pending width     *)
(* and arms the timers again, and the flush of that width chains behind    *)
(* Promise.resolve() instead of the write in flight.                       *)
(***************************************************************************)
C11_WriteSerialization ==
    \A earlier \in WriteTaskIds : \A later \in WriteTaskIds :
        (earlier < later /\ writeTasks[earlier].key = writeTasks[later].key)
            => ~(InFlight(earlier) /\ InFlight(later))

\* Every writeTask has settled: no write is queued or in flight.
AllWritesSettled == \A task \in WriteTaskIds : writeTasks[task].state = "done"

\* The writes that settled after cleanup().
WritesAfterTeardown == (atTeardown.writes + 1)..Len(wheelWrites)

(***************************************************************************)
(* C12: teardown does not lose the last gesture.  When cleanup() runs      *)
(* while a key has a pending width that has not been written, that width   *)
(* is flushed and written to the link: once the writeTasks have settled,   *)
(* a write of that width for that key has been made since cleanup().       *)
(* Refuted: cleanup() enqueues the flush and then clears wheelPendingWidth *)
(* in the same turn; the flush reads the pending width when its promise    *)
(* reaction runs, finds none and returns without writing.                  *)
(***************************************************************************)
C12_TeardownFlush ==
    (unloaded /\ AllWritesSettled)
        => \A cacheKey \in Keys :
              atTeardown.pending[cacheKey] # 0
                  => \E i \in WritesAfterTeardown :
                        /\ wheelWrites[i].key = cacheKey
                        /\ wheelWrites[i].width = atTeardown.pending[cacheKey]

(***************************************************************************)
(* C13: teardown error.  A wheel flush that has not completed when         *)
(* cleanup() runs has its promise rejected with a teardown error: the      *)
(* promise of such a writeTask is never resolved normally.                 *)
(* Refuted: cleanup() drops its references to the writeTasks and nothing   *)
(* rejects them; a writeTask that was in flight or queued at cleanup()     *)
(* runs to its end and its promise is fulfilled.                           *)
(***************************************************************************)
C13_TeardownError ==
    \A task \in atTeardown.unsettled : writeTasks[task].promise # "fulfilled"

\* A wheel tick changes the width of the key in this step: its computation
\* records a new pending width.
TickChangesWidth(cacheKey) ==
    /\ wheelPendingWidth'[cacheKey] # 0
    /\ wheelPendingWidth'[cacheKey] # wheelPendingWidth[cacheKey]

\* A flush of the key has run in this step: one of its writeTasks settles.
FlushHasRun(cacheKey) ==
    \E task \in WriteTaskIds :
        /\ writeTasks[task].key = cacheKey
        /\ writeTasks[task].state # "done"
        /\ writeTasks'[task].state = "done"

\* A timer handle made in this step.
NewTimer(handle) == handle > timerSeq

(***************************************************************************)
(* C14: timer cancellation rules.  A wheel tick that changes the width of  *)
(* a key replaces the key's debounce timer by a new one; it leaves an      *)
(* armed max-wait timer of the key as it is and arms one only when none    *)
(* is armed; and once a flush of the key has run, the max-wait timer that  *)
(* was armed is armed no more.                                             *)
(***************************************************************************)
C14_TimerRules ==
    [][\A cacheKey \in Keys :
          /\ TickChangesWidth(cacheKey)
                => /\ NewTimer(wheelDebounceTimers'[cacheKey])
                   /\ IF wheelMaxWaitTimers[cacheKey] # 0
                      THEN wheelMaxWaitTimers'[cacheKey] = wheelMaxWaitTimers[cacheKey]
                      ELSE NewTimer(wheelMaxWaitTimers'[cacheKey])
          /\ FlushHasRun(cacheKey)
                => \/ wheelMaxWaitTimers'[cacheKey] = 0
                   \/ NewTimer(wheelMaxWaitTimers'[cacheKey])]_vars

\* A second tick has changed the width of a key whose max-wait timer was
\* armed by the first: the debounce timer is newer than the max-wait timer.
C14_Witness ==
    \E cacheKey \in Keys :
        /\ lastEvent = [name |-> "resized", key |-> cacheKey]
        /\ wheelPendingWidth[cacheKey] # 0
        /\ wheelMaxWaitTimers[cacheKey] # 0
        /\ wheelDebounceTimers[cacheKey] > wheelMaxWaitTimers[cacheKey]

\* The handlers that flush at once: release of the modifier key, window
\* blur, re-registration of the listeners.
ImmediateFlushEvents == {"keyup", "blur", "reregister"}

\* The writeTasks made in this step.
NewWriteTasks == (Len(writeTasks) + 1)..Len(writeTasks')

(***************************************************************************)
(* C15: immediate flush.  On release of the modifier key, on window blur   *)
(* and on re-registration of the wheel listeners, every key that has a     *)
(* pending width has both of its timers cancelled and a flush enqueued in  *)
(* the same turn.                                                          *)
(***************************************************************************)
C15_ImmediateFlush ==
    [][lastEvent'.name \in ImmediateFlushEvents
          => \A cacheKey \in Keys :
                wheelPendingWidth[cacheKey] # 0
                    => /\ wheelDebounceTimers'[cacheKey] = 0
                       /\ wheelMaxWaitTimers'[cacheKey] = 0
                       /\ \E task \in NewWriteTasks :
                             /\ writeTasks'[task].key = cacheKey
                             /\ writeTasks'[task].state \in {"queued", "writing"}]_vars

\* The modifier key was released while a width was pending and its timers
\* were running: the only writeTask there is was made by that release, and
\* no timer is armed.
C15_Witness ==
    \E cacheKey \in Keys :
        /\ lastEvent.name = "keyup"
        /\ wheelPendingWidth[cacheKey] # 0
        /\ Len(writeTasks) = 1
        /\ writeTasks[1].key = cacheKey
        /\ writeTasks[1].state = "writing"
        /\ wheelDebounceTimers[cacheKey] = 0
        /\ wheelMaxWaitTimers[cacheKey] = 0

(***************************************************************************)
(* C19: no retries for storage writes.  After the write of a wheel flush   *)
(* has failed, a flush made later writes the same width for the same key   *)
(* only after a new input event: a wheel tick or a flush trigger (key      *)
(* release, blur, re-registration).                                        *)
(* Refuted: the failed write leaves the pending width in place, the        *)
(* .finally() of the writeTask finds it and calls scheduleWheelWidthFlush, *)
(* and the debounce timer it arms flushes the same width again.            *)
(***************************************************************************)
C19_NoRetry ==
    \A failed \in 1..Len(wheelWrites) : \A later \in 1..Len(wheelWrites) :
        (/\ failed < later
         /\ wheelWrites[failed].failed
         /\ wheelWrites[later].key = wheelWrites[failed].key
         /\ wheelWrites[later].width = wheelWrites[failed].width
         /\ wheelWrites[later].task > wheelWrites[failed].tasks)
            => wheelWrites[later].inputs > wheelWrites[failed].inputs

\* The embeds of a text that wheel writes for the key are to change.
KeyEmbeds(text, cacheKey) ==
    IF cacheKey = LocalKey THEN TargetEmbeds(text, ShortFile)
    ELSE {e \in EmbedsOf(text) : e.style = "markdown" /\ isSameExternalUrl(e.target, ExternalUrl)}

\* Where the first of the embeds starts and how much text follows the last.
FirstStart(embeds) == (CHOOSE e \in embeds : \A x \in embeds : e.start <= x.start).start
LastEnd(embeds) == (CHOOSE e \in embeds : \A x \in embeds : e.end >= x.end).end

\* new is old except between the first and the last of the embeds.
SameOutside(old, new, embeds, offset) ==
    IF embeds = {} THEN new = old
    ELSE /\ Len(new) >= (offset + FirstStart(embeds)) + (Len(old) - (offset + LastEnd(embeds)))
         /\ Substring(new, 0, offset + FirstStart(embeds))
                = Substring(old, 0, offset + FirstStart(embeds))
         /\ Substring(new, Len(new) - (Len(old) - (offset + LastEnd(embeds))), Len(new))
                = Substring(old, offset + LastEnd(embeds), Len(old))

(***************************************************************************)
(* C20: no clobbering of concurrent edits.  The text a wheel write leaves  *)
(* in the note is computed from the content the note has when the write    *)
(* runs, external edits made since the wheel tick included, and differs    *)
(* from that content only in embeds of the target: what precedes the       *)
(* first and what follows the last of them is kept as it is.               *)
(* Refuted through C1: the write starts from the latest content, but an    *)
(* embed with an empty destination that the edit brought in is rewritten   *)
(* though it is no embed of the target.                                    *)
(***************************************************************************)
C20_NoClobbering ==
    lastEvent.name = "written"
        => SameOutside(prevData, data, KeyEmbeds(Body(prevData), lastEvent.key),
                       BodyStart(prevData))

(***************************************************************************)
(* Claims about parseLinkComponents, under SpecLink.                       *)
(***************************************************************************)
HasHash(s) == \E i \in 1..Len(s) : s[i] = "#"
FromFirst(s, c) == Substring(s, Len(PrefixBefore(s, {c})), Len(s))

\* The size-token grammar on the text as it stands: no trimming.
MatchesSizeGrammar(s) == SizeReadings(s, {"x", "X"}) # {}

WikiParsed == lastOp.name = "parseLink" /\ linkDest = <<>>
FirstSegment == PrefixBefore(linkMain, {"|"})
RawParams == Tail(Split(linkMain, "|"))
LastParam == RawParams[Len(RawParams)]

\* The last parameter is of the form size#heading.
TrailingFragmentForm ==
    /\ RawParams # <<>>
    /\ HasHash(LastParam)
    /\ MatchesSizeGrammar(PrefixBefore(LastParam, {"#"}))

(***************************************************************************)
(* C21: wiki-style fragment precedence.  On a wiki-style interior          *)
(* parseLinkComponents splits path and fragment at the first # of the      *)
(* first pipe segment when that segment has one; only when it has none,    *)
(* and the last parameter has a # with a size token before it, is the last *)
(* parameter split into that size token and the trailing fragment; in      *)
(* every other case the fragment is empty and the parameters are kept      *)
(* verbatim.                                                               *)
(***************************************************************************)
C21_WikiFragmentPrecedence ==
    WikiParsed =>
        /\ linkParts.isWikiStyle
        /\ HasHash(FirstSegment)
              => /\ linkParts.path = PrefixBefore(FirstSegment, {"#"})
                 /\ linkParts.hash = FromFirst(FirstSegment, "#")
                 /\ linkParts.params = RawParams
        /\ (~HasHash(FirstSegment) /\ TrailingFragmentForm)
              => /\ linkParts.path = FirstSegment
                 /\ linkParts.hash = FromFirst(LastParam, "#")
                 /\ linkParts.params =
                        [RawParams EXCEPT ![Len(RawParams)] = PrefixBefore(LastParam, {"#"})]
        /\ (~HasHash(FirstSegment) /\ ~TrailingFragmentForm)
              => /\ linkParts.path = FirstSegment
                 /\ linkParts.hash = <<>>
                 /\ linkParts.params = RawParams

\* An interior with a fragment in the first segment and another behind a
\* size token in the last parameter has been parsed: the leading one won.
C21_Witness ==
    /\ WikiParsed
    /\ linkMain = <<"p", "#", "a", "|", "3", "#", "b">>
    /\ linkParts.path = <<"p">>
    /\ linkParts.hash = <<"#", "a">>
    /\ linkParts.params = <<<<"3", "#", "b">>>>

MarkdownParsed == lastOp.name = "parseLink" /\ linkDest # <<>>

(***************************************************************************)
(* C22: the markdown-style fragment is literal and complete.  For a        *)
(* markdown-style destination the path is the part before the first #,     *)
(* percent-decoded after the split, and the fragment is the whole          *)
(* remainder from that # to the end, not decoded; the destination that a   *)
(* rewrite builds from the parsed link ends with that remainder.           *)
(* Refuted: linkPath.split('#', 2) keeps only the text between the first   *)
(* and the second #, and a fragment that is a lone # is dropped.           *)
(***************************************************************************)
C22_MarkdownFragment ==
    MarkdownParsed =>
        /\ ~linkParts.isWikiStyle
        /\ linkParts.path = safeDecodeURIComponent(PrefixBefore(linkDest, {"#"}))
        /\ linkParts.hash = FromFirst(linkDest, "#")
        /\ EndsWith(buildLinkPath([linkParts EXCEPT !.params = <<>>], TRUE),
                    FromFirst(linkDest, "#"))

(***************************************************************************)
(* The rewritten embed of the case of C6, its caption and its destination. *)
(***************************************************************************)
RewrittenEmbed ==
    LET m == OnlyMarkdownEmbed(Body(prevData))
    IN  Substring(Body(data), m.start, Len(Body(data)) - (Len(Body(prevData)) - m.end))
RewrittenCaption == Substring(RewrittenEmbed, 2, IndexOf(RewrittenEmbed, <<"]", "(">>, 0))
RewrittenDestination ==
    Substring(RewrittenEmbed, IndexOf(RewrittenEmbed, <<"]", "(">>, 0) + 2, Len(RewrittenEmbed) - 1)

\* The parameter of caption s that starts after the | at position i.
ParamAfterBar(s, i) == PrefixBefore(SubSeq(s, i + 1, Len(s)), {"|"})

(***************************************************************************)
(* C23: the markdown-style destination stays clean.  After a rewrite of a  *)
(* markdown-style embed of the target the destination is the encoded       *)
(* path, then the fragment (the whole rest of the old destination from     *)
(* its first # on), then the old title suffix unchanged, in the bare and   *)
(* in the angle-bracket form alike; the parameters are in the caption      *)
(* only: no | is written before the title suffix, and a set width is a     *)
(* parameter of the caption.                                               *)
(***************************************************************************)
C23_CleanDestination ==
    MarkdownTargetCase =>
        LET m == OnlyMarkdownEmbed(Body(prevData))
            dest == RewrittenDestination
        IN  /\ IndexOf(RewrittenEmbed, <<"]", "(">>, 0) >= 2
            /\ dest = PathEncoded(DecodedPathOf(m)) \o FromFirst(m.linkPath, "#") \o m.titleSuffix
            /\ \A i \in 1..(Len(dest) - Len(m.titleSuffix)) : dest[i] # "|"
            /\ lastOp.name = "set" =>
                    \E i \in 1..Len(RewrittenCaption) :
                        /\ RewrittenCaption[i] = "|"
                        /\ IsDecimalStringOf(ParamAfterBar(RewrittenCaption, i), lastOp.width)

\* The same, for destinations that hold at most one #, with text after it.
C23_CleanDestinationOneHash ==
    (/\ MarkdownTargetCase
     /\ LET url == OnlyMarkdownEmbed(Body(prevData)).linkPath
        IN  Cardinality({i \in 1..Len(url) : url[i] = "#"}) <= 1 /\ url[Len(url)] # "#") =>
        C23_CleanDestination

(***************************************************************************)
(* The steps of a writeTask: its body starts the write, its write settles. *)
(***************************************************************************)
WriteStarts(task) ==
    /\ task \in 1..Len(writeTasks')
    /\ writeTasks'[task].state = "writing"
    /\ task \in 1..Len(writeTasks) => writeTasks[task].state = "queued"

WriteSucceeds(task) ==
    /\ task \in 1..Len(writeTasks)
    /\ writeTasks[task].state = "writing"
    /\ writeTasks'[task].state = "done"
    /\ wheelWrites' # wheelWrites
    /\ ~wheelWrites'[Len(wheelWrites')].failed

\* The pending width of the key of the write in flight is no longer the
\* width that write read.
ChangedInFlight(task) ==
    wheelPendingWidth[writeTasks[task].key] \notin {0, writeTasks[task].pendingWidth}

(***************************************************************************)
(* C24: coalescing with live reads.  A writeTask that starts its write     *)
(* writes the pending width the key has at that moment; a writeTask that   *)
(* is queued holds no width of its own, so a pending width that is         *)
(* overwritten before the write starts is never written; and when a write  *)
(* succeeds while the pending width of its key is another one than it      *)
(* wrote, that pending width stays recorded and a flush for it is armed    *)
(* or has started.                                                         *)
(***************************************************************************)
C24_LiveReads ==
    [][\A task \in 1..Len(writeTasks') :
        /\ WriteStarts(task) =>
                /\ writeTasks'[task].pendingWidth = wheelPendingWidth'[writeTasks'[task].key]
                /\ writeTasks'[task].pendingWidth >= 1
        /\ writeTasks'[task].state = "queued" => writeTasks'[task].pendingWidth = 0
        /\ wheelWrites' # wheelWrites /\ wheelWrites'[Len(wheelWrites')].task = task =>
                wheelWrites'[Len(wheelWrites')].width = writeTasks[task].pendingWidth
        /\ WriteSucceeds(task) /\ ChangedInFlight(task) =>
                /\ wheelPendingWidth'[writeTasks[task].key] = wheelPendingWidth[writeTasks[task].key]
                /\ \/ wheelDebounceTimers'[writeTasks[task].key] > timerSeq
                   \/ \E later \in 1..Len(writeTasks') :
                        /\ WriteStarts(later)
                        /\ writeTasks'[later].key = writeTasks[task].key]_vars

\* A write has succeeded after the pending width of its key had changed; the
\* new width is still pending and a debounce timer is armed for it.
C24_Witness ==
    /\ lastEvent.name = "written"
    /\ wheelWrites # <<>>
    /\ ~unloaded
    /\ LET w == wheelWrites[Len(wheelWrites)]
       IN  /\ ~w.failed
           /\ wheelPendingWidth[w.key] \notin {0, w.width}
           /\ wheelDebounceTimers[w.key] # 0

(***************************************************************************)
(* The timer steps of a key, and the step that completes a flush of it.    *)
(***************************************************************************)
DebounceFiresFor(cacheKey) ==
    lastEvent' = [name |-> "debounce", key |-> cacheKey] /\ wheelDebounceTimers[cacheKey] # 0

MaxWaitFiresFor(cacheKey) ==
    lastEvent' = [name |-> "maxWait", key |-> cacheKey] /\ wheelMaxWaitTimers[cacheKey] # 0

\* The timer step has flushed: a new writeTask of the key, or, for a key
\* that is not tracked, no pending width any more.
HasFlushed(cacheKey) ==
    IF wheelTargets[cacheKey]
    THEN /\ Len(writeTasks') = Len(writeTasks) + 1
         /\ writeTasks'[Len(writeTasks')].key = cacheKey
    ELSE wheelPendingWidth'[cacheKey] = 0

FlushCompletesFor(cacheKey) ==
    \E task \in 1..Len(writeTasks) : WriteSucceeds(task) /\ writeTasks[task].key = cacheKey

\* The flush of the key completes; TRUE when a tick has changed the pending
\* width meanwhile.
TickDuringFlush(cacheKey) ==
    \E task \in 1..Len(writeTasks) :
        WriteSucceeds(task) /\ writeTasks[task].key = cacheKey /\ ChangedInFlight(task)

\* C25 without the clause on the debounce timer when the max-wait timer
\* fires.
C25_FlushAndRestart ==
    [][\A cacheKey \in Keys :
        /\ DebounceFiresFor(cacheKey) =>
                HasFlushed(cacheKey) /\ wheelDebounceTimers'[cacheKey] = 0
        /\ MaxWaitFiresFor(cacheKey) =>
                HasFlushed(cacheKey) /\ wheelMaxWaitTimers'[cacheKey] = 0
        /\ FlushCompletesFor(cacheKey) =>
                IF TickDuringFlush(cacheKey)
                THEN /\ wheelDebounceTimers'[cacheKey] > timerSeq
                     /\ wheelMaxWaitTimers'[cacheKey] > timerSeq
                ELSE /\ wheelMaxWaitTimers'[cacheKey] = 0
                     /\ wheelDebounceTimers'[cacheKey] = wheelDebounceTimers[cacheKey]]_vars

(***************************************************************************)
(* C25: the timer transitions of a key.  When the debounce timer fires it  *)
(* flushes, and when that flush completes with no tick in between neither  *)
(* timer of the key is armed; when the max-wait timer fires it flushes and *)
(* neither timer of the key is armed after it, the debounce timer          *)
(* included; when a flush completes and a tick has changed the pending     *)
(* width during it, both timers are started again.                         *)
(***************************************************************************)
C25_TimerTransitions ==
    [][\A cacheKey \in Keys :
        /\ DebounceFiresFor(cacheKey) =>
                HasFlushed(cacheKey) /\ wheelDebounceTimers'[cacheKey] = 0
        /\ MaxWaitFiresFor(cacheKey) =>
                /\ HasFlushed(cacheKey)
                /\ wheelMaxWaitTimers'[cacheKey] = 0
                /\ wheelDebounceTimers'[cacheKey] = 0
        /\ FlushCompletesFor(cacheKey) =>
                IF TickDuringFlush(cacheKey)
                THEN /\ wheelDebounceTimers'[cacheKey] > timerSeq
                     /\ wheelMaxWaitTimers'[cacheKey] > timerSeq
                ELSE wheelDebounceTimers[cacheKey] = 0 =>
                        /\ wheelMaxWaitTimers'[cacheKey] = 0
                        /\ wheelDebounceTimers'[cacheKey] = 0]_vars

(***************************************************************************)
(* C26: read/write symmetry.  After set-width w on a note with an embed    *)
(* of the target, in either style and with the heading fragment before or  *)
(* after the parameters, findCurrentImageWidthInText reads w from the      *)
(* rewritten content; and once remove-width changes nothing any more, it   *)
(* reads no width (0 stands for null).                                     *)
(***************************************************************************)
C26_ReadWriteSymmetry ==
    (/\ IsLinkRewrite
     /\ imageFile.path # ActiveFile.path
     /\ TargetEmbeds(Body(prevData), imageFile) # {}) =>
        /\ lastOp.name = "set" =>
                /\ lastOp.width >= 1
                /\ findCurrentImageWidthInText(imageFile, Body(data)) = lastOp.width
        /\ lastOp.name = "remove" /\ data = prevData =>
                findCurrentImageWidthInText(imageFile, Body(data)) = 0

\* The same, for notes whose markdown-style embeds have a title suffix that
\* is empty or starts with white space, as in ![c](p "t").
C26_SymmetryWithSeparatedTitle ==
    (\A m \in ElementsOf(scanMarkdownImageLinks(Body(prevData))) :
        m.titleSuffix = <<>> \/ Head(m.titleSuffix) \in {" ", "\t", "\n"}) =>
        C26_ReadWriteSymmetry

(***************************************************************************)
(* C27: no stranded pending width.  Between two event-loop turns, before   *)
(* cleanup, every key with a pending width has a debounce timer armed or a *)
(* writeTask that is queued or in flight.                                  *)
(***************************************************************************)
C27_NoStrandedPending ==
    ~unloaded =>
        \A cacheKey \in Keys :
            wheelPendingWidth[cacheKey] # 0 =>
                \/ wheelDebounceTimers[cacheKey] # 0
                \/ \E task \in 1..Len(writeTasks) :
                        /\ writeTasks[task].key = cacheKey
                        /\ writeTasks[task].state \in {"queued", "writing"}

\* A write has failed: its width is still pending, no writeTask of the key
\* is left, and the debounce timer is armed again.
C27_Witness ==
    /\ ~unloaded
    /\ lastEvent.name = "failed"
    /\ wheelPendingWidth[lastEvent.key] # 0
    /\ wheelDebounceTimers[lastEvent.key] # 0
    /\ \A task \in 1..Len(writeTasks) : writeTasks[task].state = "done"

(***************************************************************************)
(* C29: written widths are valid size tokens.  Every width a wheel flush   *)
(* writes, and every width a percentage resize writes (percentage >= 1,    *)
(* intrinsic width >= 1), is an integer >= 1, and the token written for    *)
(* it is a size token that reads as that width.                            *)
(***************************************************************************)
C29_ValidWidths ==
    /\ \A i \in 1..Len(wheelWrites) :
            /\ wheelWrites[i].width >= 1
            /\ IsSizeToken(NumberToString(wheelWrites[i].width))
    /\ lastOp.name = "resize" =>
            /\ lastOp.width >= 1
            /\ IsSizeToken(NumberToString(lastOp.width))

\* The wheel half of C29, for SpecWheel.
C29_WheelWidths ==
    \A i \in 1..Len(wheelWrites) :
        /\ wheelWrites[i].width >= 1
        /\ IsSizeToken(NumberToString(wheelWrites[i].width))
        /\ SizeTokenWidth(NumberToString(wheelWrites[i].width)) = wheelWrites[i].width

\* The resize half of C29 for the results that are at least 1.
C29_ResizeTokens ==
    lastOp.name = "resize" /\ lastOp.width >= 1 =>
        /\ IsSizeToken(NumberToString(lastOp.width))
        /\ SizeTokenWidth(NumberToString(lastOp.width)) = lastOp.width

(***************************************************************************)
(* C30: the markdown-style scanner terminates.  At every index the scan    *)
(* reaches inside the text, the iteration of the outer loop ends the scan  *)
(* or leaves the index strictly larger and not beyond the end of the text, *)
(* also when a backslash escape has taken the cursor past the end; so the  *)
(* distance to the end of the text decreases with every iteration and the  *)
(* scan ends.  The matches reported lie inside the text, each starting     *)
(* where the one before has ended or later.                                *)
(***************************************************************************)
C30_ScannerTerminates ==
    /\ [][/\ scanState' = "scanning" => scanIndex' > scanIndex
          /\ scanIndex' <= Len(data)]_vars
    /\ [](Scanning =>
            /\ ScanIteration(data, scanIndex).kind \in {"stop", "skip", "match"}
            /\ ScanIteration(data, scanIndex).kind # "stop" =>
                    /\ ScanIteration(data, scanIndex).next > scanIndex
                    /\ ScanIteration(data, scanIndex).next <= Len(data))
    /\ [](\A i \in 1..Len(scanMatches) :
            /\ 0 <= scanMatches[i].start
            /\ scanMatches[i].start < scanMatches[i].end
            /\ scanMatches[i].end <= Len(data)
            /\ i > 1 => scanMatches[i - 1].end <= scanMatches[i].start)

\* A scan has ended on a text whose last opening has only a backslash
\* after it: two matches were reported before it.
C30_Witness ==
    /\ scanState = "done"
    /\ data = <<"!", "[", "c", "]", "(", "p", ")", "!", "[", "e", "|", "5", "]", "(", "q", "\\", ")", ")", " ", "!", "[", "\\">>
    /\ Len(scanMatches) = 2
    /\ scanIndex = Len(data) - 2

(***************************************************************************)
(* The inputs have stopped: no further wheel, key, blur or layout event    *)
(* comes, and no computation of a wheel event is still waiting.            *)
(***************************************************************************)
TicksStopped == steps = MaxInputs /\ wheelComputes = NoComputes

\* Nothing is left of the key in the service.
Quiescent(cacheKey) ==
    /\ wheelPendingWidth[cacheKey] = 0
    /\ wheelDebounceTimers[cacheKey] = 0
    /\ wheelMaxWaitTimers[cacheKey] = 0
    /\ ~wheelTargets[cacheKey]
    /\ wheelWriteQueue[cacheKey] = 0

\* The width has been written for the key, and the note holds it.
Persisted(cacheKey, width) ==
    /\ \E i \in 1..Len(wheelWrites) :
            /\ wheelWrites[i].key = cacheKey
            /\ wheelWrites[i].width = width
            /\ ~wheelWrites[i].failed
    /\ TextWidth(cacheKey) = width

\* The bound on writeTasks keeps an armed timer of the key from firing.
OutOfWriteTasks(cacheKey) ==
    /\ Len(writeTasks) >= MaxWriteTasks
    /\ wheelTargets[cacheKey]
    /\ wheelDebounceTimers[cacheKey] # 0 \/ wheelMaxWaitTimers[cacheKey] # 0

\* The widths a key can have after up to n wheel events, from the widths
\* ws it can start with.
FullStep(width) == Max(1, RoundDiv(width * WheelZoomPercentage, 100))

RECURSIVE WidthsWithin(_, _)
WidthsWithin(ws, n) ==
    IF n = 0 THEN ws
    ELSE WidthsWithin(ws \cup {w + FullStep(w) : w \in ws}
                         \cup {Max(1, w - FullStep(w)) : w \in ws}, n - 1)

StartWidths ==
    {img.naturalWidth : img \in DomImages} \cup {img.altWidth : img \in DomImages}
        \cup ImageWidths \cup {DefaultExternalFallbackWidth}
        \cup {findCurrentImageWidthInText(ShortFile, doc) : doc \in WheelDocs}

PendingWidths == WidthsWithin(StartWidths, MaxInputs) \ {0}

\* Every pending width of the model is one of PendingWidths.
C28_WidthsCovered == \A cacheKey \in Keys : wheelPendingWidth[cacheKey] \in PendingWidths \cup {0}

(***************************************************************************)
(* C28: eventual persistence and quiescence.  Once the inputs have         *)
(* stopped, with timers that fire and writes of which one succeeds in the  *)
(* end, a pending width of a key leads to a state where that width has     *)
(* been written and is in the note, and the key has no pending width, no   *)
(* debounce or max-wait timer, no tracked target and no write-queue entry. *)
(* The plugin is not unloaded meanwhile, and the writeTasks of the model   *)
(* do not run out.                                                         *)
(***************************************************************************)
C28_EventualPersistence ==
    \A cacheKey \in Keys : \A width \in PendingWidths :
        (TicksStopped /\ ~unloaded /\ wheelPendingWidth[cacheKey] = width)
            ~> \/ Quiescent(cacheKey) /\ Persisted(cacheKey, width)
               \/ unloaded
               \/ OutOfWriteTasks(cacheKey)

\* The inputs have stopped after two wheel events; the first write of the
\* key failed, the second wrote the pending width, and nothing is left of
\* the key.
C28_Witness ==
    /\ TicksStopped /\ ~unloaded
    /\ Len(wheelWrites) = 2
    /\ wheelWrites[1].failed /\ ~wheelWrites[2].failed
    /\ wheelWrites[1].key = LocalKey /\ wheelWrites[2].key = LocalKey
    /\ wheelWrites[1].inputs = MaxInputs
    /\ wheelWrites[1].width = wheelWrites[2].width
    /\ Quiescent(LocalKey)
    /\ Persisted(LocalKey, wheelWrites[2].width)

====
